---------------------------- MODULE Spec2Model ----------------------------
(***************************************************************************)
(* Model of the business logic of stationary-logger-rs: the door tracker   *)
(* (door.rs), the power-availability tracker (power_availability.rs) and   *)
(* the temperature aggregator (temperature_aggregator.rs) over the time    *)
(* grid of timestamp.rs, and the functions of timestamp.rs themselves.     *)
(*                                                                         *)
(* A tracker is a value (a record holding the struct's fields); each       *)
(* method is an operator from the tracker and the arguments to the new     *)
(* tracker and the returned value; each action applies one method to the   *)
(* tracker under test; a &mut self method records its call in `result`, a  *)
(* &self method writes nothing.  The trackers share no state, so a run     *)
(* exercises one of them (`unit`).                                         *)
(*                                                                         *)
(* Timestamps are u32 seconds.  The model keeps every timestamp far below  *)
(* 2^32, so no addition wraps; a subtraction is the mathematical one, so   *)
(* a negative difference (which the u32 code cannot represent) is visible. *)
(* The door and the power tracker never subtract a later timestamp from an *)
(* earlier one; the temperature aggregator can, see its section.           *)
(***************************************************************************)
EXTENDS Integers, Sequences, FiniteSets, TLC

VARIABLES
    unit,     \* what this run exercises: "door", "power", "temp" or "time"
    door,     \* struct Door
    power,    \* struct PowerAvailability
    agg,      \* struct TemperatureAggregator
    result,   \* the last mutating call and what it returned: [op, event, ts, val]
    ncalls,   \* number of mutating calls so far
    hist      \* history of the run, for the statements about a whole run

vars == <<unit, door, power, agg, result, ncalls, hist>>

----------------------------------------------------------------------------
(* Bounds *)

\* Mutating calls (accepted or rejected) per run.
MaxCalls == 3

\* Days that the timestamps given to the functions of timestamp.rs span.
MaxDays == 2

----------------------------------------------------------------------------
(* timestamp.rs *)

SHORT_SAMPLE_PERIOD == 900

LONG_SAMPLE_PERIOD == 8 * 3600

get_last_short_sample_end(seconds) ==
    (seconds \div SHORT_SAMPLE_PERIOD) * SHORT_SAMPLE_PERIOD

\* get_last_long_sample_end, rounding up to the grid.
get_last_long_sample_end_rounded_up(seconds) ==
    ((seconds + LONG_SAMPLE_PERIOD - 1) \div LONG_SAMPLE_PERIOD) * LONG_SAMPLE_PERIOD

get_last_long_sample_end(seconds) ==
    (seconds \div LONG_SAMPLE_PERIOD) * LONG_SAMPLE_PERIOD

\* Option<Timestamp>
None == <<>>

Some(t) == <<t>>

\* Result<(), TimestampError>
Ok == "Ok"

OutOfOrder == "OutOfOrder"

\* A string is the sequence of its characters, each a one-character string.
\* `{}` of a u32: its decimal digits, no sign, no leading zero.
DigitChars == <<"0", "1", "2", "3", "4", "5", "6", "7", "8", "9">>

RECURSIVE Display(_)
Display(n) ==
    IF n < 10
    THEN <<DigitChars[n + 1]>>
    ELSE Display(n \div 10) \o <<DigitChars[(n % 10) + 1]>>

\* Timestamp::to_dhms
to_dhms(seconds) ==
    LET days == seconds \div 86400
        seconds_of_day == seconds - days * 86400
        hours == seconds_of_day \div 3600
        remaining_seconds == seconds_of_day - hours * 3600
        minutes == remaining_seconds \div 60
    IN  <<days, hours, minutes, remaining_seconds - minutes * 60>>

\* Timestamp::create_iso8601_str.  The longest text it writes,
\* P49710DT23H59M59S, fits the 32 bytes of the ArrayString.
create_iso8601_str(seconds) ==
    LET dhms == to_dhms(seconds)
        days == dhms[1]
        hours == dhms[2]
        minutes == dhms[3]
        remaining_seconds == dhms[4]
        date == IF days > 0
                THEN <<"P">> \o Display(days) \o <<"D">>
                ELSE <<"P", "0", "D">>
        time == IF hours > 0 \/ minutes > 0 \/ remaining_seconds > 0
                THEN <<"T">> \o Display(hours) \o <<"H">> \o Display(minutes)
                        \o <<"M">> \o Display(remaining_seconds) \o <<"S">>
                ELSE <<"T", "0", "S">>
    IN  date \o time

\* str::starts_with
starts_with(s, pat) ==
    Len(s) >= Len(pat) /\ SubSeq(s, 1, Len(pat)) = pat

\* str::strip_prefix and str::strip_suffix with a char
strip_prefix(s, c) ==
    IF Len(s) > 0 /\ s[1] = c THEN Some(Tail(s)) ELSE None

strip_suffix(s, c) ==
    IF Len(s) > 0 /\ s[Len(s)] = c THEN Some(SubSeq(s, 1, Len(s) - 1)) ELSE None

\* str::split_once: the text before and the text after the first occurrence
\* of pat.
split_once(s, pat) ==
    LET found == {i \in 1..(Len(s) - Len(pat) + 1) :
                     SubSeq(s, i, i + Len(pat) - 1) = pat}
    IN  IF found = {}
        THEN None
        ELSE LET i == CHOOSE x \in found : \A y \in found : x <= y
             IN  Some(<<SubSeq(s, 1, i - 1), SubSeq(s, i + Len(pat), Len(s))>>)

IsDigit(c) == \E d \in 1..10 : DigitChars[d] = c

DigitValue(c) == (CHOOSE d \in 1..10 : DigitChars[d] = c) - 1

RECURSIVE StripZeros(_)
StripZeros(s) ==
    IF Len(s) > 1 /\ s[1] = "0" THEN StripZeros(Tail(s)) ELSE s

RECURSIVE DecimalValue(_)
DecimalValue(s) ==
    IF s = <<>>
    THEN 0
    ELSE 10 * DecimalValue(SubSeq(s, 1, Len(s) - 1)) + DigitValue(s[Len(s)])

\* <u32 as FromStr>::from_str(s).ok(): one optional leading '+', then one or
\* more decimal digits whose value is at most 2^32 - 1 = 4294967295.  A value
\* of 2^31 or more is returned as its signed representative (value - 2^32).
parse_u32(s) ==
    LET digits == IF Len(s) > 1 /\ s[1] = "+" THEN Tail(s) ELSE s
        z == StripZeros(digits)
        q == DecimalValue(SubSeq(z, 1, 9))
        r == DigitValue(z[10])
    IN  IF Len(digits) = 0 \/ \E i \in 1..Len(digits) : ~IsDigit(digits[i])
        THEN None
        ELSE IF Len(z) <= 9
             THEN Some(DecimalValue(z))
             ELSE IF Len(z) > 10 \/ q > 429496729 \/ (q = 429496729 /\ r > 5)
                  THEN None
                  ELSE IF q < 214748364 \/ (q = 214748364 /\ r <= 7)
                       THEN Some(10 * q + r)
                       ELSE Some(10 * (q - 429496728) + (r - 16))

\* Timestamp::parse_duration
parse_duration(input) ==
    IF starts_with(input, <<"P", "0", "D", "T", "0", "S">>)
    THEN Some(<<0, 0, 0, 0>>)
    ELSE LET stripped == strip_prefix(input, "P")
             at_dt == IF stripped = None THEN None
                      ELSE split_once(stripped[1], <<"D", "T">>)
             at_h == IF at_dt = None THEN None
                     ELSE split_once(at_dt[1][2], <<"H">>)
             at_m == IF at_h = None THEN None
                     ELSE split_once(at_h[1][2], <<"M">>)
             seconds_str == IF at_m = None THEN None
                            ELSE strip_suffix(at_m[1][2], "S")
         IN  IF seconds_str = None
             THEN None
             ELSE LET days == parse_u32(at_dt[1][1])
                      hours == parse_u32(at_h[1][1])
                      minutes == parse_u32(at_m[1][1])
                      seconds == parse_u32(seconds_str[1])
                  IN  IF days = None \/ hours = None \/ minutes = None
                            \/ seconds = None
                      THEN None
                      ELSE Some(<<days[1], hours[1], minutes[1], seconds[1]>>)

----------------------------------------------------------------------------
(* door.rs *)

DOOR_ALARM_THRESHOLD == 300

\* enum DoorEvent
Opened(ts) == [kind |-> "Opened", ts |-> ts]

Closed(ts) == [kind |-> "Closed", ts |-> ts]

\* impl Default for Door
Door_default ==
    [opened |-> None,
     last_event_ts |-> 0,
     prev_short_sample_ended |-> 0,
     prev_long_sample_ended |-> 0,
     short_open_count |-> 0,
     short_open_accum |-> 0,
     long_open_count |-> 0,
     long_open_accum |-> 0,
     short_alarmed |-> FALSE,
     long_alarmed |-> FALSE]

\* Door::new
Door_new(open, now) ==
    LET open_count == IF open THEN 1 ELSE 0
    IN  [opened |-> IF open THEN Some(now) ELSE None,
         last_event_ts |-> now,
         prev_short_sample_ended |-> get_last_short_sample_end(now),
         prev_long_sample_ended |-> get_last_long_sample_end(now),
         short_open_count |-> open_count,
         short_open_accum |-> 0,
         long_open_count |-> open_count,
         long_open_accum |-> 0,
         short_alarmed |-> FALSE,
         long_alarmed |-> FALSE]

\* Door::validate_timestamp_and_update with the comparison widened to <=:
\* an equal timestamp is rejected.
Door_validate_rejects_equal(d, timestamp) ==
    IF timestamp <= d.last_event_ts
    THEN [val |-> OutOfOrder, self |-> d]
    ELSE [val |-> Ok, self |-> [d EXCEPT !.last_event_ts = timestamp]]

\* Door::validate_timestamp_and_update accepting every timestamp.
Door_validate_accepts_all(d, timestamp) ==
    [val |-> Ok, self |-> [d EXCEPT !.last_event_ts = timestamp]]

\* Door::validate_timestamp_and_update without the write of last_event_ts.
Door_validate_without_update(d, timestamp) ==
    IF timestamp < d.last_event_ts
    THEN [val |-> OutOfOrder, self |-> d]
    ELSE [val |-> Ok, self |-> d]

\* Door::validate_timestamp_and_update: the `?` of the callers returns the
\* error before anything else is written.
Door_validate_timestamp_and_update(d, timestamp) ==
    IF timestamp < d.last_event_ts
    THEN [val |-> OutOfOrder, self |-> d]
    ELSE [val |-> Ok, self |-> [d EXCEPT !.last_event_ts = timestamp]]

\* Door::log_event, the Opened arm
Door_log_opened(d, timestamp) ==
    [d EXCEPT !.opened = Some(timestamp),
              !.short_open_count = @ + 1,
              !.long_open_count = @ + 1]

\* Door::log_event, the Closed arm, latching only above the threshold.
Door_log_closed_above_threshold(d, timestamp) ==
    IF d.opened # None
    THEN LET duration == timestamp - d.opened[1]
         IN  [d EXCEPT !.opened = None,
                       !.short_open_accum = @ + duration,
                       !.long_open_accum = @ + duration,
                       !.short_alarmed = (duration > DOOR_ALARM_THRESHOLD),
                       !.long_alarmed = (duration > DOOR_ALARM_THRESHOLD)]
    ELSE d

\* Door::log_event, the Closed arm (self.opened.take())
Door_log_closed(d, timestamp) ==
    IF d.opened # None
    THEN LET duration == timestamp - d.opened[1]
         IN  [d EXCEPT !.opened = None,
                       !.short_open_accum = @ + duration,
                       !.long_open_accum = @ + duration,
                       !.short_alarmed = (duration >= DOOR_ALARM_THRESHOLD),
                       !.long_alarmed = (duration >= DOOR_ALARM_THRESHOLD)]
    ELSE d

\* Door::log_event
Door_log_event(d, event) ==
    LET v == Door_validate_timestamp_and_update(d, event.ts)
    IN  IF v.val # Ok
        THEN v
        ELSE [val |-> Ok,
              self |-> IF event.kind = "Opened"
                       THEN Door_log_opened(v.self, event.ts)
                       ELSE Door_log_closed(v.self, event.ts)]

\* Door::get_short_sample
Door_get_short_sample(d, check_time) ==
    LET presently_open_seconds ==
            IF d.opened # None
            THEN IF check_time < d.opened[1] THEN 0
                 ELSE check_time - d.opened[1]
            ELSE 0
    IN  <<d.short_open_count, d.short_open_accum + presently_open_seconds>>

\* Door::get_long_sample without the clamp of a check_time before opened.
Door_get_long_sample_unclamped(d, check_time) ==
    LET presently_open_seconds ==
            IF d.opened # None THEN check_time - d.opened[1] ELSE 0
    IN  <<d.long_open_count, d.long_open_accum + presently_open_seconds>>

\* Door::get_long_sample
Door_get_long_sample(d, check_time) ==
    LET presently_open_seconds ==
            IF d.opened # None
            THEN IF check_time < d.opened[1] THEN 0
                 ELSE check_time - d.opened[1]
            ELSE 0
    IN  <<d.long_open_count, d.long_open_accum + presently_open_seconds>>

\* Door::reset_short_sample
Door_reset_short_sample(d, timestamp) ==
    LET v == Door_validate_timestamp_and_update(d, timestamp)
    IN  IF v.val # Ok
        THEN v
        ELSE [val |-> Ok,
              self |-> [v.self EXCEPT !.prev_short_sample_ended = timestamp,
                                      !.short_open_count = 0,
                                      !.short_open_accum = 0,
                                      !.short_alarmed = FALSE]]

\* Door::reset_long_sample clearing the alarm flag of the short window too.
Door_reset_long_clears_short_alarm(d, timestamp) ==
    LET v == Door_validate_timestamp_and_update(d, timestamp)
    IN  IF v.val # Ok
        THEN v
        ELSE [val |-> Ok,
              self |-> [v.self EXCEPT !.prev_long_sample_ended = timestamp,
                                      !.long_open_count = 0,
                                      !.long_open_accum = 0,
                                      !.long_alarmed = FALSE,
                                      !.short_alarmed = FALSE]]

\* Door::reset_long_sample
Door_reset_long_sample(d, timestamp) ==
    LET v == Door_validate_timestamp_and_update(d, timestamp)
    IN  IF v.val # Ok
        THEN v
        ELSE [val |-> Ok,
              self |-> [v.self EXCEPT !.prev_long_sample_ended = timestamp,
                                      !.long_open_count = 0,
                                      !.long_open_accum = 0,
                                      !.long_alarmed = FALSE]]

\* Door::is_short_sample_alarmed with >= for >.
Door_is_short_sample_alarmed_at_threshold(d, now) ==
    LET open_long == IF d.opened # None
                     THEN now >= d.opened[1] + DOOR_ALARM_THRESHOLD
                     ELSE FALSE
    IN  d.short_alarmed \/ open_long

\* Door::is_short_sample_alarmed
Door_is_short_sample_alarmed(d, now) ==
    LET open_long == IF d.opened # None
                     THEN now > d.opened[1] + DOOR_ALARM_THRESHOLD
                     ELSE FALSE
    IN  d.short_alarmed \/ open_long

\* Door::is_long_sample_alarmed
Door_is_long_sample_alarmed(d, now) ==
    LET open_long == IF d.opened # None
                     THEN now > d.opened[1] + DOOR_ALARM_THRESHOLD
                     ELSE FALSE
    IN  d.long_alarmed \/ open_long

\* Door::get_idrv
Door_get_idrv(d, now) ==
    IF d.opened # None
    THEN IF now >= d.opened[1] THEN now - d.opened[1] ELSE 0
    ELSE 0

----------------------------------------------------------------------------
(* power_availability.rs *)

POWER_ALARM_THRESHOLD == 86400

\* enum PowerEvent
On(ts) == [kind |-> "On", ts |-> ts]

Off(ts) == [kind |-> "Off", ts |-> ts]

\* impl Default for PowerAvailability
Power_default ==
    [status |-> Off(0),
     last_event_ts |-> 0,
     prev_short_sample_ended |-> 0,
     prev_long_sample_ended |-> 0,
     short_power_accum |-> 0,
     long_power_accum |-> 0,
     short_alarmed |-> FALSE,
     long_alarmed |-> FALSE]

\* PowerAvailability::new
Power_new(on, now) ==
    [status |-> IF on THEN On(now) ELSE Off(now),
     last_event_ts |-> now,
     prev_short_sample_ended |-> get_last_short_sample_end(now),
     prev_long_sample_ended |-> get_last_long_sample_end(now),
     short_power_accum |-> 0,
     long_power_accum |-> 0,
     short_alarmed |-> FALSE,
     long_alarmed |-> FALSE]

\* PowerAvailability::validate_timestamp_and_update with <= for <.
Power_validate_rejects_equal(p, timestamp) ==
    IF timestamp <= p.last_event_ts
    THEN [val |-> OutOfOrder, self |-> p]
    ELSE [val |-> Ok, self |-> [p EXCEPT !.last_event_ts = timestamp]]

\* PowerAvailability::validate_timestamp_and_update
Power_validate_timestamp_and_update(p, timestamp) ==
    IF timestamp < p.last_event_ts
    THEN [val |-> OutOfOrder, self |-> p]
    ELSE [val |-> Ok, self |-> [p EXCEPT !.last_event_ts = timestamp]]

\* The On arm with > for >=.
Power_log_on_above_threshold(p, timestamp) ==
    IF p.status.kind = "Off"
    THEN LET duration == timestamp - p.status.ts
         IN  [p EXCEPT !.short_alarmed = (duration > POWER_ALARM_THRESHOLD),
                       !.long_alarmed = (duration > POWER_ALARM_THRESHOLD)]
    ELSE p

\* PowerAvailability::log_event, the On arm
Power_log_on(p, timestamp) ==
    IF p.status.kind = "Off"
    THEN LET duration == timestamp - p.status.ts
         IN  [p EXCEPT !.short_alarmed = (duration >= POWER_ALARM_THRESHOLD),
                       !.long_alarmed = (duration >= POWER_ALARM_THRESHOLD)]
    ELSE p

\* The Off arm without the test of the status: the time since the last
\* status event is added whatever the status.
Power_log_off_any_status(p, timestamp) ==
    LET duration == timestamp - p.status.ts
    IN  [p EXCEPT !.short_power_accum = @ + duration,
                  !.long_power_accum = @ + duration]

\* PowerAvailability::log_event, the Off arm
Power_log_off(p, timestamp) ==
    IF p.status.kind = "On"
    THEN LET duration == timestamp - p.status.ts
         IN  [p EXCEPT !.short_power_accum = @ + duration,
                       !.long_power_accum = @ + duration]
    ELSE p

\* PowerAvailability::log_event
Power_log_event(p, event) ==
    LET v == Power_validate_timestamp_and_update(p, event.ts)
    IN  IF v.val # Ok
        THEN v
        ELSE [val |-> Ok,
              self |-> [(IF event.kind = "On"
                         THEN Power_log_on(v.self, event.ts)
                         ELSE Power_log_off(v.self, event.ts))
                        EXCEPT !.status = event]]

\* PowerAvailability::get_short_sample
Power_get_short_sample(p, check_time) ==
    LET presently_on_seconds ==
            IF p.status.kind = "On"
            THEN IF check_time < p.status.ts THEN 0
                 ELSE check_time - p.status.ts
            ELSE 0
    IN  p.short_power_accum + presently_on_seconds

\* PowerAvailability::get_long_sample
Power_get_long_sample(p, check_time) ==
    LET presently_on_seconds ==
            IF p.status.kind = "On"
            THEN IF check_time < p.status.ts THEN 0
                 ELSE check_time - p.status.ts
            ELSE 0
    IN  p.long_power_accum + presently_on_seconds

\* PowerAvailability::reset_short_sample
Power_reset_short_sample(p, timestamp) ==
    LET v == Power_validate_timestamp_and_update(p, timestamp)
    IN  IF v.val # Ok
        THEN v
        ELSE [val |-> Ok,
              self |-> [v.self EXCEPT !.prev_short_sample_ended = timestamp,
                                      !.short_power_accum = 0,
                                      !.short_alarmed = FALSE]]

\* PowerAvailability::reset_long_sample
Power_reset_long_sample(p, timestamp) ==
    LET v == Power_validate_timestamp_and_update(p, timestamp)
    IN  IF v.val # Ok
        THEN v
        ELSE [val |-> Ok,
              self |-> [v.self EXCEPT !.prev_long_sample_ended = timestamp,
                                      !.long_power_accum = 0,
                                      !.long_alarmed = FALSE]]

\* PowerAvailability::is_short_sample_alarmed with >= for >.
Power_is_short_sample_alarmed_at_threshold(p, now) ==
    LET off_long == IF p.status.kind = "Off"
                    THEN now >= p.status.ts + POWER_ALARM_THRESHOLD
                    ELSE FALSE
    IN  p.short_alarmed \/ off_long

\* PowerAvailability::is_short_sample_alarmed
Power_is_short_sample_alarmed(p, now) ==
    LET off_long == IF p.status.kind = "Off"
                    THEN now > p.status.ts + POWER_ALARM_THRESHOLD
                    ELSE FALSE
    IN  p.short_alarmed \/ off_long

\* PowerAvailability::is_long_sample_alarmed with >= for >.
Power_is_long_sample_alarmed_at_threshold(p, now) ==
    LET off_long == IF p.status.kind = "Off"
                    THEN now >= p.status.ts + POWER_ALARM_THRESHOLD
                    ELSE FALSE
    IN  p.long_alarmed \/ off_long

\* PowerAvailability::is_long_sample_alarmed
Power_is_long_sample_alarmed(p, now) ==
    LET off_long == IF p.status.kind = "Off"
                    THEN now > p.status.ts + POWER_ALARM_THRESHOLD
                    ELSE FALSE
    IN  p.long_alarmed \/ off_long

----------------------------------------------------------------------------
(* temperature_aggregator.rs *)

(***************************************************************************)
(* A temperature (f32, degrees Celsius) is held in hundredths of a degree: *)
(* 8.01 is 801, -0.5 is -50.  Option<f32> is None or Some(t).              *)
(*                                                                         *)
(* add_sample subtracts u32 timestamps with no check of their order.  A    *)
(* build with overflow checks panics on a difference below zero; a build   *)
(* without them wraps it to 2^32 + difference.  The model holds a u32      *)
(* that may have wrapped by its two's-complement representative: a         *)
(* negative n stands for 2^32 + n, and additions of representatives are    *)
(* the additions modulo 2^32.                                              *)
(*                                                                         *)
(* tvc_sum and tamb_sum (f32, degree-seconds) are held exactly and         *)
(* doubled, so that the trapezoid's halving stays integral, as             *)
(* wraps * 2^32 + units in hundredths of a degree-second; the rounding of  *)
(* f32 is not represented.                                                 *)
(***************************************************************************)

MAX_GOOD_VACCINE_TEMP == 800

MIN_GOOD_VACCINE_TEMP == 200

ALARM_LOW_TEMPERATURE == -50

ALARM_HIGH_SECONDS == 10 * 60 * 60

ALARM_LOW_SECONDS == 60 * 60

\* The vaccine temperature `new` assumes when no reading is given.
ROOM_TEMPERATURE == 2300

\* struct TemperatureSample
TemperatureSample(ambient, vaccine) == [ambient |-> ambient, vaccine |-> vaccine]

\* x >= c for a u32 x held by its representative and a constant 0 <= c < 2^31.
U32Ge(x, c) == x < 0 \/ x >= c

\* An f32 sum of zero.
SumZero == [wraps |-> 0, units |-> 0]

\* sum += avg_temp * time_delta as f32, with twice avg_temp given: a wrapped
\* time_delta is 2^32 + time_delta.
SumAdd(sum, twice_avg_temp, time_delta) ==
    [wraps |-> sum.wraps + (IF time_delta < 0 THEN twice_avg_temp ELSE 0),
     units |-> sum.units + twice_avg_temp * time_delta]

\* f32::min, f32::max
Min(a, b) == IF a < b THEN a ELSE b

Max(a, b) == IF a > b THEN a ELSE b

\* TempLongRecord::default()
TempLongRecord_default ==
    [tvc_sum |-> SumZero,
     tvc_seconds |-> 0,
     tvc_min |-> 0,
     tvc_max |-> 0,
     tamb_sum |-> SumZero,
     tamb_seconds |-> 0,
     tvc_low_seconds |-> 0,
     tvc_high_seconds |-> 0,
     low_alarm_seconds |-> 0,
     high_alarm_seconds |-> 0]

\* struct ColdTS
ColdTS(cool_start, freeze_start) ==
    [cool_start |-> cool_start, freeze_start |-> freeze_start]

\* enum AlarmState
InRange == [kind |-> "InRange"]

HotNoAlarm(ts) == [kind |-> "HotNoAlarm", ts |-> ts]

HotAlarm(ts) == [kind |-> "HotAlarm", ts |-> ts]

Cold(ts) == [kind |-> "Cold", ts |-> ts]

FreezeNoAlarm(cold_ts) == [kind |-> "FreezeNoAlarm", cold_ts |-> cold_ts]

FreezeAlarm(cold_ts) == [kind |-> "FreezeAlarm", cold_ts |-> cold_ts]

\* TemperatureAggregator::new, the initial status, with the good range
\* mapped to InRange.
new_status_in_range(tvc_value, now) ==
    IF tvc_value > MAX_GOOD_VACCINE_TEMP
    THEN HotNoAlarm(now)
    ELSE IF tvc_value < MIN_GOOD_VACCINE_TEMP /\ tvc_value > ALARM_LOW_TEMPERATURE
         THEN Cold(now)
         ELSE IF tvc_value < MIN_GOOD_VACCINE_TEMP
              THEN FreezeNoAlarm(ColdTS(now, now))
              ELSE InRange

\* TemperatureAggregator::new, the initial status
new_status(tvc_value, now) ==
    IF tvc_value > MAX_GOOD_VACCINE_TEMP
    THEN HotNoAlarm(now)
    ELSE IF tvc_value < MIN_GOOD_VACCINE_TEMP /\ tvc_value > ALARM_LOW_TEMPERATURE
         THEN Cold(now)
         ELSE FreezeNoAlarm(ColdTS(now, now))

\* TemperatureAggregator::new
TemperatureAggregator_new(temps, now) ==
    LET last_short_sample_ts == get_last_short_sample_end(now)
        last_ambient_temp == temps.ambient
        last_vaccine_temp == temps.vaccine
        tvc_value == IF last_vaccine_temp # None
                     THEN last_vaccine_temp[1]
                     ELSE ROOM_TEMPERATURE
    IN  [status |-> new_status(tvc_value, now),
         last_short_sample_ts |-> last_short_sample_ts,
         prev_long_sample_ended |-> get_last_long_sample_end(now),
         last_ambient_temp |-> last_ambient_temp,
         last_vaccine_temp |-> last_vaccine_temp,
         last_ambient_ts |-> IF last_ambient_temp # None
                             THEN Some(last_short_sample_ts) ELSE None,
         last_vaccine_ts |-> IF last_vaccine_temp # None
                             THEN Some(last_short_sample_ts) ELSE None,
         low_alarm_start |-> None,
         high_alarm_start |-> None,
         long_record |-> IF last_vaccine_temp # None
                         THEN [TempLongRecord_default
                                  EXCEPT !.tvc_min = last_vaccine_temp[1],
                                         !.tvc_max = last_vaccine_temp[1]]
                         ELSE TempLongRecord_default]

\* add_sample, the minimum and maximum of an interval's two ends, with the
\* two stored the wrong way round.
first_min_max_swapped(rec, prev_vaccine, current_vaccine) ==
    [rec EXCEPT !.tvc_min = Max(prev_vaccine, current_vaccine),
                !.tvc_max = Min(prev_vaccine, current_vaccine)]

\* add_sample, the first aggregation of a record: the minimum and maximum
\* are those of the interval's two ends.
first_min_max(rec, prev_vaccine, current_vaccine) ==
    [rec EXCEPT !.tvc_min = Min(prev_vaccine, current_vaccine),
                !.tvc_max = Max(prev_vaccine, current_vaccine)]

\* add_sample, the vaccine channel, with the time out of the good range keyed
\* on the reading of the call.
add_sample_vaccine_by_current(rec, last_vaccine_temp, vaccine, time_delta) ==
    IF last_vaccine_temp # None
    THEN LET prev_vaccine == last_vaccine_temp[1]
             twice_avg_temp ==
                 prev_vaccine + (IF vaccine # None THEN vaccine[1] ELSE prev_vaccine)
             summed == [rec EXCEPT
                           !.tvc_sum = SumAdd(@, twice_avg_temp, time_delta),
                           !.tvc_seconds = @ + time_delta]
             ranged ==
                 IF vaccine = None
                 THEN summed
                 ELSE IF summed.tvc_seconds = time_delta
                      THEN first_min_max(summed, prev_vaccine, vaccine[1])
                      ELSE [summed EXCEPT !.tvc_min = Min(@, vaccine[1]),
                                          !.tvc_max = Max(@, vaccine[1])]
             current == IF vaccine # None THEN vaccine[1] ELSE prev_vaccine
         IN  IF current > MAX_GOOD_VACCINE_TEMP
             THEN [ranged EXCEPT !.tvc_high_seconds = @ + time_delta]
             ELSE IF current < MIN_GOOD_VACCINE_TEMP
                  THEN [ranged EXCEPT !.tvc_low_seconds = @ + time_delta]
                  ELSE ranged
    ELSE IF vaccine # None
         THEN [rec EXCEPT !.tvc_min = vaccine[1], !.tvc_max = vaccine[1]]
         ELSE rec

\* add_sample, the vaccine channel: integration, minimum and maximum, time
\* out of the good range.
add_sample_vaccine(rec, last_vaccine_temp, vaccine, time_delta) ==
    IF last_vaccine_temp # None
    THEN LET prev_vaccine == last_vaccine_temp[1]
             twice_avg_temp ==
                 prev_vaccine + (IF vaccine # None THEN vaccine[1] ELSE prev_vaccine)
             summed == [rec EXCEPT
                           !.tvc_sum = SumAdd(@, twice_avg_temp, time_delta),
                           !.tvc_seconds = @ + time_delta]
             ranged ==
                 IF vaccine = None
                 THEN summed
                 ELSE IF summed.tvc_seconds = time_delta
                      THEN first_min_max(summed, prev_vaccine, vaccine[1])
                      ELSE [summed EXCEPT !.tvc_min = Min(@, vaccine[1]),
                                          !.tvc_max = Max(@, vaccine[1])]
         IN  IF prev_vaccine > MAX_GOOD_VACCINE_TEMP
             THEN [ranged EXCEPT !.tvc_high_seconds = @ + time_delta]
             ELSE IF prev_vaccine < MIN_GOOD_VACCINE_TEMP
                  THEN [ranged EXCEPT !.tvc_low_seconds = @ + time_delta]
                  ELSE ranged
    ELSE IF vaccine # None
         THEN [rec EXCEPT !.tvc_min = vaccine[1], !.tvc_max = vaccine[1]]
         ELSE rec

\* add_sample, the ambient channel, integrating the reading of the call over
\* the whole interval.
add_sample_ambient_right_endpoint(rec, last_ambient_temp, ambient, time_delta) ==
    IF last_ambient_temp # None
    THEN LET prev_ambient == last_ambient_temp[1]
             current_ambient == IF ambient # None THEN ambient[1] ELSE prev_ambient
         IN  [rec EXCEPT
                 !.tamb_sum = SumAdd(@, current_ambient + current_ambient, time_delta),
                 !.tamb_seconds = @ + time_delta]
    ELSE rec

\* add_sample, the ambient channel
add_sample_ambient(rec, last_ambient_temp, ambient, time_delta) ==
    IF last_ambient_temp # None
    THEN LET prev_ambient == last_ambient_temp[1]
             current_ambient == IF ambient # None THEN ambient[1] ELSE prev_ambient
         IN  [rec EXCEPT
                 !.tamb_sum = SumAdd(@, prev_ambient + current_ambient, time_delta),
                 !.tamb_seconds = @ + time_delta]
    ELSE rec

\* add_sample, the match on the status, with > for >= in both upgrades.
add_sample_persistence_above(self, now, time_delta) ==
    CASE self.status.kind = "HotAlarm" ->
            [self EXCEPT !.long_record.high_alarm_seconds = @ + time_delta]
      [] self.status.kind = "FreezeAlarm" ->
            [self EXCEPT !.long_record.low_alarm_seconds = @ + time_delta]
      [] self.status.kind = "HotNoAlarm" ->
            IF now - self.status.ts > ALARM_HIGH_SECONDS
            THEN [self EXCEPT !.status = HotAlarm(self.status.ts),
                              !.high_alarm_start = Some(self.status.ts)]
            ELSE self
      [] self.status.kind = "FreezeNoAlarm" ->
            IF now - self.status.cold_ts.freeze_start > ALARM_LOW_SECONDS
            THEN [self EXCEPT !.status = FreezeAlarm(self.status.cold_ts),
                              !.low_alarm_start = Some(self.status.cold_ts.freeze_start)]
            ELSE self
      [] OTHER -> self

\* add_sample, the match on the status, with the upgrading call charged too.
add_sample_persistence_charges_upgrade(self, now, time_delta) ==
    CASE self.status.kind = "HotAlarm" ->
            [self EXCEPT !.long_record.high_alarm_seconds = @ + time_delta]
      [] self.status.kind = "FreezeAlarm" ->
            [self EXCEPT !.long_record.low_alarm_seconds = @ + time_delta]
      [] self.status.kind = "HotNoAlarm" ->
            IF U32Ge(now - self.status.ts, ALARM_HIGH_SECONDS)
            THEN [self EXCEPT !.status = HotAlarm(self.status.ts),
                              !.high_alarm_start = Some(self.status.ts),
                              !.long_record.high_alarm_seconds = @ + time_delta]
            ELSE self
      [] self.status.kind = "FreezeNoAlarm" ->
            IF U32Ge(now - self.status.cold_ts.freeze_start, ALARM_LOW_SECONDS)
            THEN [self EXCEPT !.status = FreezeAlarm(self.status.cold_ts),
                              !.low_alarm_start = Some(self.status.cold_ts.freeze_start),
                              !.long_record.low_alarm_seconds = @ + time_delta]
            ELSE self
      [] OTHER -> self

\* add_sample, the match on the status: alarm time is charged to the state
\* the call found, and a NoAlarm state that lasted long enough is upgraded.
add_sample_persistence(self, now, time_delta) ==
    CASE self.status.kind = "HotAlarm" ->
            [self EXCEPT !.long_record.high_alarm_seconds = @ + time_delta]
      [] self.status.kind = "FreezeAlarm" ->
            [self EXCEPT !.long_record.low_alarm_seconds = @ + time_delta]
      [] self.status.kind = "HotNoAlarm" ->
            IF U32Ge(now - self.status.ts, ALARM_HIGH_SECONDS)
            THEN [self EXCEPT !.status = HotAlarm(self.status.ts),
                              !.high_alarm_start = Some(self.status.ts)]
            ELSE self
      [] self.status.kind = "FreezeNoAlarm" ->
            IF U32Ge(now - self.status.cold_ts.freeze_start, ALARM_LOW_SECONDS)
            THEN [self EXCEPT !.status = FreezeAlarm(self.status.cold_ts),
                              !.low_alarm_start = Some(self.status.cold_ts.freeze_start)]
            ELSE self
      [] OTHER -> self

\* add_sample, the new status, with a reading of exactly 8.0 taken as hot.
add_sample_transition_hot_at_limit(status, current_vaccine, now) ==
    IF current_vaccine >= MAX_GOOD_VACCINE_TEMP
    THEN IF status.kind \in {"HotAlarm", "HotNoAlarm"}
         THEN status
         ELSE HotNoAlarm(now)
    ELSE IF current_vaccine <= ALARM_LOW_TEMPERATURE
         THEN IF status.kind \in {"FreezeAlarm", "FreezeNoAlarm"}
              THEN status
              ELSE FreezeNoAlarm(ColdTS(now, now))
         ELSE IF current_vaccine < MIN_GOOD_VACCINE_TEMP
              THEN Cold(now)
              ELSE InRange

\* add_sample, the new status from a present vaccine reading
add_sample_transition(status, current_vaccine, now) ==
    CASE status.kind \in {"HotAlarm", "HotNoAlarm"} ->
            IF current_vaccine > MAX_GOOD_VACCINE_TEMP
            THEN IF U32Ge(now - status.ts, ALARM_HIGH_SECONDS)
                 THEN HotAlarm(status.ts)
                 ELSE HotNoAlarm(status.ts)
            ELSE IF current_vaccine < MIN_GOOD_VACCINE_TEMP
                 THEN IF current_vaccine <= ALARM_LOW_TEMPERATURE
                      THEN FreezeNoAlarm(ColdTS(now, now))
                      ELSE Cold(now)
                 ELSE InRange
      [] status.kind \in {"FreezeAlarm", "FreezeNoAlarm"} ->
            IF current_vaccine <= ALARM_LOW_TEMPERATURE
            THEN IF U32Ge(now - status.cold_ts.freeze_start, ALARM_LOW_SECONDS)
                 THEN FreezeAlarm(status.cold_ts)
                 ELSE FreezeNoAlarm(status.cold_ts)
            ELSE IF current_vaccine < MIN_GOOD_VACCINE_TEMP
                 THEN Cold(status.cold_ts.cool_start)
                 ELSE IF current_vaccine > MAX_GOOD_VACCINE_TEMP
                      THEN HotNoAlarm(now)
                      ELSE InRange
      [] status.kind = "Cold" ->
            IF current_vaccine <= ALARM_LOW_TEMPERATURE
            THEN FreezeNoAlarm(ColdTS(status.ts, now))
            ELSE IF current_vaccine < MIN_GOOD_VACCINE_TEMP
                 THEN Cold(status.ts)
                 ELSE IF current_vaccine > MAX_GOOD_VACCINE_TEMP
                      THEN HotNoAlarm(now)
                      ELSE InRange
      [] status.kind = "InRange" ->
            IF current_vaccine > MAX_GOOD_VACCINE_TEMP
            THEN HotNoAlarm(now)
            ELSE IF current_vaccine < MIN_GOOD_VACCINE_TEMP
                 THEN IF current_vaccine <= ALARM_LOW_TEMPERATURE
                      THEN FreezeNoAlarm(ColdTS(now, now))
                      ELSE Cold(now)
                 ELSE InRange

\* add_sample, with a missing vaccine reading stored as the last one.
TemperatureAggregator_add_sample_forgets_vaccine(self, temps, now) ==
    LET ambient == temps.ambient
        vaccine == temps.vaccine
        time_delta == now - self.last_short_sample_ts
        aggregated ==
            [self EXCEPT !.long_record =
                add_sample_ambient(
                    add_sample_vaccine(@, self.last_vaccine_temp, vaccine, time_delta),
                    self.last_ambient_temp, ambient, time_delta)]
        persisted == add_sample_persistence(aggregated, now, time_delta)
        moved == IF vaccine # None
                 THEN [persisted EXCEPT
                          !.status = add_sample_transition(@, vaccine[1], now)]
                 ELSE persisted
    IN  [moved EXCEPT
            !.last_short_sample_ts = now,
            !.last_ambient_temp = IF ambient # None THEN ambient ELSE @,
            !.last_ambient_ts = IF ambient # None THEN Some(now) ELSE @,
            !.last_vaccine_temp = vaccine,
            !.last_vaccine_ts = IF vaccine # None THEN Some(now) ELSE None]

\* TemperatureAggregator::add_sample in a build whose arithmetic wraps.
TemperatureAggregator_add_sample(self, temps, now) ==
    LET ambient == temps.ambient
        vaccine == temps.vaccine
        time_delta == now - self.last_short_sample_ts
        aggregated ==
            [self EXCEPT !.long_record =
                add_sample_ambient(
                    add_sample_vaccine(@, self.last_vaccine_temp, vaccine, time_delta),
                    self.last_ambient_temp, ambient, time_delta)]
        persisted == add_sample_persistence(aggregated, now, time_delta)
        moved == IF vaccine # None
                 THEN [persisted EXCEPT
                          !.status = add_sample_transition(@, vaccine[1], now)]
                 ELSE persisted
    IN  [moved EXCEPT
            !.last_short_sample_ts = now,
            !.last_ambient_temp = IF ambient # None THEN ambient ELSE @,
            !.last_ambient_ts = IF ambient # None THEN Some(now) ELSE @,
            !.last_vaccine_temp = IF vaccine # None THEN vaccine ELSE @,
            !.last_vaccine_ts = IF vaccine # None THEN Some(now) ELSE @]

\* Whether add_sample evaluates a u32 subtraction whose difference is below
\* zero (where a build with overflow checks panics): the time delta, the
\* persistence check of the status the call finds, or the persistence check
\* of a reading that stays hot or stays frozen.
add_sample_underflows(self, temps, now) ==
    LET s == self.status
        vaccine == temps.vaccine
    IN  \/ now - self.last_short_sample_ts < 0
        \/ s.kind = "HotNoAlarm" /\ now - s.ts < 0
        \/ s.kind = "FreezeNoAlarm" /\ now - s.cold_ts.freeze_start < 0
        \/ /\ s.kind \in {"HotAlarm", "HotNoAlarm"}
           /\ vaccine # None
           /\ vaccine[1] > MAX_GOOD_VACCINE_TEMP
           /\ now - s.ts < 0
        \/ /\ s.kind \in {"FreezeAlarm", "FreezeNoAlarm"}
           /\ vaccine # None
           /\ vaccine[1] <= ALARM_LOW_TEMPERATURE
           /\ now - s.cold_ts.freeze_start < 0

\* TemperatureAggregator::is_low_alarm
TemperatureAggregator_is_low_alarm(self) == self.status.kind = "FreezeAlarm"

\* TemperatureAggregator::is_high_alarm
TemperatureAggregator_is_high_alarm(self) == self.status.kind = "HotAlarm"

\* TemperatureAggregator::finalize_long_record with the alarm state reset.
TemperatureAggregator_finalize_resets_status(self) ==
    [val |-> self.long_record,
     self |-> [self EXCEPT !.long_record = TempLongRecord_default,
                           !.prev_long_sample_ended = self.last_short_sample_ts,
                           !.status = InRange]]

\* TemperatureAggregator::finalize_long_record with the persistence clock of
\* a hot or freeze state restarted at the boundary.
TemperatureAggregator_finalize_restarts_clock(self) ==
    LET ts == self.last_short_sample_ts
        s == self.status
        restarted ==
            CASE s.kind \in {"HotNoAlarm", "HotAlarm"} -> HotNoAlarm(ts)
              [] s.kind \in {"FreezeNoAlarm", "FreezeAlarm"} ->
                    FreezeNoAlarm(ColdTS(s.cold_ts.cool_start, ts))
              [] OTHER -> s
    IN  [val |-> self.long_record,
         self |-> [self EXCEPT !.long_record = TempLongRecord_default,
                               !.prev_long_sample_ended = ts,
                               !.status = restarted]]

\* TemperatureAggregator::finalize_long_record
TemperatureAggregator_finalize_long_record(self) ==
    [val |-> self.long_record,
     self |-> [self EXCEPT !.long_record = TempLongRecord_default,
                           !.prev_long_sample_ended = self.last_short_sample_ts]]

----------------------------------------------------------------------------
(* The calls a run makes *)

\* Construction timestamps: on the grid origin, just after a short period
\* boundary, and just after a short boundary beyond the first long one.
InitTimes == {0, SHORT_SAMPLE_PERIOD + 1, LONG_SAMPLE_PERIOD + SHORT_SAMPLE_PERIOD + 1}

\* Distances of a call's timestamp from the last accepted one: equal, below
\* the alarm threshold, exactly at it, just above it.
Deltas(threshold) == {0, threshold \div 2, threshold, threshold + 1}

\* Timestamps of a mutating call: at or after the last accepted one, or
\* just before it.
CallTimes(last, threshold) ==
    {last + x : x \in Deltas(threshold)} \cup {t \in {last - 1} : t >= 0}

\* Timestamps of a query: around the last accepted one.
QueryTimes(last, threshold) ==
    {last + x : x \in Deltas(threshold)}
        \cup {t \in {last - threshold \div 2} : t >= 0}

\* History of a run.  For either tracker: the timestamp of the most recently
\* accepted call (the construction time at first) and whether the calls so
\* far came with non-decreasing timestamps.  For the door: the moment the
\* door became open (None while closed), the summed length of the completed
\* openings, whether a reset was accepted, and per window whether an opening
\* measured at the threshold or longer was closed since that window's last
\* reset.
HistInit(now, opened) ==
    [last_accepted |-> now,
     monotone |-> TRUE,
     became_open |-> opened,
     completed |-> 0,
     reset_seen |-> FALSE,
     long_closed_short |-> FALSE,
     long_closed_long |-> FALSE]

\* What every mutating call adds to the history; prev is the timestamp of
\* the call before (the construction time at first).
HistCall(h, prev, ts, val) ==
    [h EXCEPT !.last_accepted = IF val = Ok THEN ts ELSE @,
              !.monotone = @ /\ ts >= prev]

HistOpened(h, d, ts) ==
    IF d.opened = None THEN [h EXCEPT !.became_open = Some(ts)] ELSE h

HistClosed(h, d, ts) ==
    IF d.opened = None
    THEN h
    ELSE LET measured_long == ts - d.opened[1] >= DOOR_ALARM_THRESHOLD
         IN  [h EXCEPT !.became_open = None,
                       !.completed = @ + (ts - h.became_open[1]),
                       !.long_closed_short = @ \/ measured_long,
                       !.long_closed_long = @ \/ measured_long]

Call(op, event, ts, val) == [op |-> op, event |-> event, ts |-> ts, val |-> val]

InitDoor ==
    /\ unit = "door"
    /\ \/ /\ door = Door_default
          /\ result = Call("default", "-", 0, Ok)
       \/ \E open \in BOOLEAN, now \in InitTimes :
            /\ door = Door_new(open, now)
            /\ result = Call("new", "-", now, Ok)
    /\ power = Power_default
    /\ agg = TemperatureAggregator_new(TemperatureSample(None, None), 0)
    /\ ncalls = 0
    /\ hist = HistInit(door.last_event_ts, door.opened)

InitPower ==
    /\ unit = "power"
    /\ \/ /\ power = Power_default
          /\ result = Call("default", "-", 0, Ok)
       \/ \E on \in BOOLEAN, now \in InitTimes :
            /\ power = Power_new(on, now)
            /\ result = Call("new", "-", now, Ok)
    /\ door = Door_default
    /\ agg = TemperatureAggregator_new(TemperatureSample(None, None), 0)
    /\ ncalls = 0
    /\ hist = HistInit(power.last_event_ts, None)

Init == InitDoor \/ InitPower

\* A mutating call of the door: the method's outcome r, recorded.
DoorCall(op, event, ts, r, h) ==
    /\ unit = "door"
    /\ ncalls < MaxCalls
    /\ door' = r.self
    /\ result' = Call(op, event, ts, r.val)
    /\ ncalls' = ncalls + 1
    /\ hist' = HistCall(IF r.val = Ok THEN h ELSE hist, result.ts, ts, r.val)
    /\ UNCHANGED <<unit, power, agg>>

DoorOpened ==
    \E ts \in CallTimes(door.last_event_ts, DOOR_ALARM_THRESHOLD) :
        DoorCall("log_event", "Opened", ts, Door_log_event(door, Opened(ts)),
                 HistOpened(hist, door, ts))

DoorClosed ==
    \E ts \in CallTimes(door.last_event_ts, DOOR_ALARM_THRESHOLD) :
        DoorCall("log_event", "Closed", ts, Door_log_event(door, Closed(ts)),
                 HistClosed(hist, door, ts))

DoorResetShort ==
    \E ts \in CallTimes(door.last_event_ts, DOOR_ALARM_THRESHOLD) :
        DoorCall("reset_short_sample", "-", ts, Door_reset_short_sample(door, ts),
                 [hist EXCEPT !.reset_seen = TRUE, !.long_closed_short = FALSE])

DoorResetLong ==
    \E ts \in CallTimes(door.last_event_ts, DOOR_ALARM_THRESHOLD) :
        DoorCall("reset_long_sample", "-", ts, Door_reset_long_sample(door, ts),
                 [hist EXCEPT !.reset_seen = TRUE, !.long_closed_long = FALSE])

\* A query (&self) writes nothing; answers maps each query time to what the
\* method returns for it.
DoorQuery(answers) ==
    /\ unit = "door"
    /\ DOMAIN answers # {}
    /\ UNCHANGED vars

DoorGetShortSample ==
    DoorQuery([now \in QueryTimes(door.last_event_ts, DOOR_ALARM_THRESHOLD) |->
                   Door_get_short_sample(door, now)])

DoorGetLongSample ==
    DoorQuery([now \in QueryTimes(door.last_event_ts, DOOR_ALARM_THRESHOLD) |->
                   Door_get_long_sample(door, now)])

DoorIsShortSampleAlarmed ==
    DoorQuery([now \in QueryTimes(door.last_event_ts, DOOR_ALARM_THRESHOLD) |->
                   Door_is_short_sample_alarmed(door, now)])

DoorIsLongSampleAlarmed ==
    DoorQuery([now \in QueryTimes(door.last_event_ts, DOOR_ALARM_THRESHOLD) |->
                   Door_is_long_sample_alarmed(door, now)])

DoorGetIdrv ==
    DoorQuery([now \in QueryTimes(door.last_event_ts, DOOR_ALARM_THRESHOLD) |->
                   Door_get_idrv(door, now)])

\* A mutating call of the power tracker.
PowerCall(op, event, ts, r) ==
    /\ unit = "power"
    /\ ncalls < MaxCalls
    /\ power' = r.self
    /\ result' = Call(op, event, ts, r.val)
    /\ ncalls' = ncalls + 1
    /\ hist' = HistCall(hist, result.ts, ts, r.val)
    /\ UNCHANGED <<unit, door, agg>>

PowerOn ==
    \E ts \in CallTimes(power.last_event_ts, POWER_ALARM_THRESHOLD) :
        PowerCall("log_event", "On", ts, Power_log_event(power, On(ts)))

PowerOff ==
    \E ts \in CallTimes(power.last_event_ts, POWER_ALARM_THRESHOLD) :
        PowerCall("log_event", "Off", ts, Power_log_event(power, Off(ts)))

PowerResetShort ==
    \E ts \in CallTimes(power.last_event_ts, POWER_ALARM_THRESHOLD) :
        PowerCall("reset_short_sample", "-", ts, Power_reset_short_sample(power, ts))

PowerResetLong ==
    \E ts \in CallTimes(power.last_event_ts, POWER_ALARM_THRESHOLD) :
        PowerCall("reset_long_sample", "-", ts, Power_reset_long_sample(power, ts))

PowerQuery(answers) ==
    /\ unit = "power"
    /\ DOMAIN answers # {}
    /\ UNCHANGED vars

PowerGetShortSample ==
    PowerQuery([now \in QueryTimes(power.last_event_ts, POWER_ALARM_THRESHOLD) |->
                   Power_get_short_sample(power, now)])

PowerGetLongSample ==
    PowerQuery([now \in QueryTimes(power.last_event_ts, POWER_ALARM_THRESHOLD) |->
                   Power_get_long_sample(power, now)])

PowerIsShortSampleAlarmed ==
    PowerQuery([now \in QueryTimes(power.last_event_ts, POWER_ALARM_THRESHOLD) |->
                   Power_is_short_sample_alarmed(power, now)])

PowerIsLongSampleAlarmed ==
    PowerQuery([now \in QueryTimes(power.last_event_ts, POWER_ALARM_THRESHOLD) |->
                   Power_is_long_sample_alarmed(power, now)])

DoorNext ==
    \/ DoorOpened
    \/ DoorClosed
    \/ DoorResetShort
    \/ DoorResetLong
    \/ DoorGetShortSample
    \/ DoorGetLongSample
    \/ DoorIsShortSampleAlarmed
    \/ DoorIsLongSampleAlarmed
    \/ DoorGetIdrv

PowerNext ==
    \/ PowerOn
    \/ PowerOff
    \/ PowerResetShort
    \/ PowerResetLong
    \/ PowerGetShortSample
    \/ PowerGetLongSample
    \/ PowerIsShortSampleAlarmed
    \/ PowerIsLongSampleAlarmed

Next == DoorNext \/ PowerNext

Spec == Init /\ [][Next]_vars

SpecDoor == InitDoor /\ [][DoorNext]_vars

SpecPower == InitPower /\ [][PowerNext]_vars

\* Construction timestamps of the aggregator: on the grid, and just after a
\* short period boundary.
TempInitTimes == {0, SHORT_SAMPLE_PERIOD + 1}

\* Initial readings: a vaccine reading on either side of each of the three
\* thresholds, a missing vaccine reading, a missing ambient reading.
InitSamples ==
    {TemperatureSample(Some(2500), Some(v)) : v \in {-50, -49, 199, 200, 800, 801}}
        \cup {TemperatureSample(Some(2500), None), TemperatureSample(None, Some(500))}

\* Readings of add_sample: freezing, cold, in range, hot without an ambient
\* reading, and a missing vaccine reading.
StepSamples ==
    {TemperatureSample(Some(1700), Some(v)) : v \in {-50, 199, 800}}
        \cup {TemperatureSample(None, Some(801)), TemperatureSample(Some(1700), None)}

\* Distances of a sample from the one before: none, a short period, the
\* persistence time of the freeze alarm, that of the hot alarm.
TempDeltas == {0, SHORT_SAMPLE_PERIOD, ALARM_LOW_SECONDS, ALARM_HIGH_SECONDS}

\* Timestamps of add_sample: at or after the last sample, or a short period
\* before it.
TempCallTimes(last) ==
    {last + x : x \in TempDeltas} \cup {t \in {last - SHORT_SAMPLE_PERIOD} : t >= 0}

\* What add_sample returns, and the outcome of a call that panicked.
Unit == "()"

Panic == "Panic"

\* The seconds counters of a long record.
Counters(rec) ==
    [tvc_seconds |-> rec.tvc_seconds,
     tamb_seconds |-> rec.tamb_seconds,
     tvc_low_seconds |-> rec.tvc_low_seconds,
     tvc_high_seconds |-> rec.tvc_high_seconds,
     low_alarm_seconds |-> rec.low_alarm_seconds,
     high_alarm_seconds |-> rec.high_alarm_seconds]

CountersSum(a, b) == [f \in DOMAIN a |-> a[f] + b[f]]

\* History of a run of the aggregator: whether the timestamps so far, the
\* construction time included, were non-decreasing; whether a call has
\* panicked; whether a subtraction has wrapped; whether every reading so far, the initial one included, was
\* a vaccine reading above 8.0; the construction time; the sample timestamp
\* at the last finalize (None before the first); the aggregator that the
\* same samples give when no finalize is called; the summed counters of the
\* records returned by finalize; the aggregator as the last call found it;
\* the timestamp of the first reading of the current run of present vaccine
\* readings below 2.0, of those at or below -0.5 and of those above 8.0
\* (None when the last present reading was not of that kind); a missing
\* reading at construction counts as one of room temperature; the vaccine
\* values in effect during the current long record (the value stored when
\* the record began and the readings received since); whether the current
\* record has integrated an interval that ended in a present vaccine
\* reading.
RunStart(run, in_run, now) ==
    IF in_run THEN (IF run # None THEN run ELSE Some(now)) ELSE None

\* The vaccine reading at construction; room temperature stands in for a
\* missing one.
InitialReading(temps) ==
    IF temps.vaccine # None THEN temps.vaccine[1] ELSE ROOM_TEMPERATURE

TempHistInit(temps, now, a) ==
    [monotone |-> TRUE,
     panicked |-> FALSE,
     wrapped |-> FALSE,
     all_hot |-> temps.vaccine # None /\ temps.vaccine[1] > MAX_GOOD_VACCINE_TEMP,
     start |-> now,
     last_finalize |-> None,
     plain |-> a,
     done |-> Counters(TempLongRecord_default),
     before |-> a,
     cool_run |-> RunStart(None, InitialReading(temps) < MIN_GOOD_VACCINE_TEMP, now),
     freeze_run |-> RunStart(None, InitialReading(temps) <= ALARM_LOW_TEMPERATURE, now),
     hot_run |-> RunStart(None, InitialReading(temps) > MAX_GOOD_VACCINE_TEMP, now),
     record_values |-> IF temps.vaccine # None THEN {temps.vaccine[1]} ELSE {},
     record_integrated |-> FALSE]

TempHistSample(h, prev, temps, now) ==
    [h EXCEPT !.monotone = @ /\ now >= prev,
              !.cool_run = IF temps.vaccine = None THEN @
                           ELSE RunStart(@, temps.vaccine[1] < MIN_GOOD_VACCINE_TEMP, now),
              !.freeze_run = IF temps.vaccine = None THEN @
                             ELSE RunStart(@, temps.vaccine[1] <= ALARM_LOW_TEMPERATURE, now),
              !.hot_run = IF temps.vaccine = None THEN @
                          ELSE RunStart(@, temps.vaccine[1] > MAX_GOOD_VACCINE_TEMP, now),
              !.record_values = IF temps.vaccine = None THEN @
                                ELSE @ \cup {temps.vaccine[1]},
              !.record_integrated = @ \/ (temps.vaccine # None
                                            /\ agg.last_vaccine_temp # None),
              !.all_hot = @ /\ temps.vaccine # None
                            /\ temps.vaccine[1] > MAX_GOOD_VACCINE_TEMP,
              !.plain = TemperatureAggregator_add_sample(@, temps, now)]

InitTemp ==
    /\ unit = "temp"
    /\ \E temps \in InitSamples, now \in TempInitTimes :
            /\ agg = TemperatureAggregator_new(temps, now)
            /\ result = Call("new", temps, now, Unit)
            /\ hist = TempHistInit(temps, now, agg)
    /\ door = Door_default
    /\ power = Power_default
    /\ ncalls = 0

\* A mutating call of the aggregator, recorded.  Nothing is called after a
\* panic.
TempCall(op, event, ts, val, a, h) ==
    /\ unit = "temp"
    /\ ncalls < MaxCalls
    /\ ~hist.panicked
    /\ agg' = a
    /\ result' = Call(op, event, ts, val)
    /\ ncalls' = ncalls + 1
    /\ hist' = [h EXCEPT !.before = agg]
    /\ UNCHANGED <<unit, door, power>>

\* add_sample.  Where a subtraction goes below zero, the call panics in a
\* build with overflow checks and wraps in a build without; a run that has
\* wrapped once is of the second kind.
TempAddSample ==
    \E temps \in StepSamples, now \in TempCallTimes(agg.last_short_sample_ts) :
        LET h == TempHistSample(hist, result.ts, temps, now)
            a == TemperatureAggregator_add_sample(agg, temps, now)
        IN  IF add_sample_underflows(agg, temps, now)
            THEN \/ /\ ~hist.wrapped
                    /\ TempCall("add_sample", temps, now, Panic, agg,
                                [hist EXCEPT !.monotone = FALSE, !.panicked = TRUE])
                 \/ TempCall("add_sample", temps, now, Unit, a,
                             [h EXCEPT !.wrapped = TRUE])
            ELSE TempCall("add_sample", temps, now, Unit, a, h)

\* finalize_long_record; it takes no timestamp, the record of the call keeps
\* that of the call before.
TempFinalize ==
    LET r == TemperatureAggregator_finalize_long_record(agg)
    IN  TempCall("finalize_long_record", "-", result.ts, r.val, r.self,
                 [hist EXCEPT !.last_finalize = Some(agg.last_short_sample_ts),
                              !.record_values =
                                  IF agg.last_vaccine_temp # None
                                  THEN {agg.last_vaccine_temp[1]} ELSE {},
                              !.record_integrated = FALSE,
                              !.done = CountersSum(@, Counters(r.val))])

TempQuery(answer) ==
    /\ unit = "temp"
    /\ answer \in BOOLEAN
    /\ UNCHANGED vars

TempIsHighAlarm == TempQuery(TemperatureAggregator_is_high_alarm(agg))

TempIsLowAlarm == TempQuery(TemperatureAggregator_is_low_alarm(agg))

TempNext ==
    \/ TempAddSample
    \/ TempFinalize
    \/ TempIsHighAlarm
    \/ TempIsLowAlarm

SpecTemp == InitTemp /\ [][TempNext]_vars

\* Timestamps of a run over the functions of timestamp.rs: around the minute,
\* the hour, the short and the long period boundaries of each of the first
\* days, and the largest value below 2^31.
DayOffsets ==
    {0, 1, 60, 899, 900, 901, 3661, 28799, 28800, 86399}

TimeValues ==
    {days * 86400 + offset : days \in 0..MaxDays, offset \in DayOffsets}
        \cup {2147483647}

\* Texts given to parse_duration whatever was written before: those of
\* test_parse_duration, texts with something after the final S, a text
\* without the date, signed and zero-padded fields, a field at and a field
\* above the largest u32, the empty text.
DurationTexts ==
    {<<"P", "1", "D", "T", "2", "H", "3", "M", "4", "S">>,
     <<"P", "0", "D", "T", "0", "S">>,
     <<"P", "2", "D", "T", "3", "H", "4", "M", "5">>,
     <<"P", "0", "D", "T", "0", "S", "X">>,
     <<"P", "0", "D", "T", "0", "S", "1", "H", "2", "M", "3", "S">>,
     <<"P", "1", "D", "T", "2", "H", "3", "M", "4", "S", "5", "S">>,
     <<"P", "T", "2", "H", "3", "M", "4", "S">>,
     <<"P", "+", "1", "D", "T", "0", "2", "H", "3", "M", "4", "S">>,
     <<"P", "-", "1", "D", "T", "2", "H", "3", "M", "4", "S">>,
     <<"P", "1", "D", "T", "2", "H", "3", "M",
       "4", "2", "9", "4", "9", "6", "7", "2", "9", "5", "S">>,
     <<"P", "1", "D", "T", "2", "H", "3", "M",
       "4", "2", "9", "4", "9", "6", "7", "2", "9", "6", "S">>,
     <<>>}

\* The texts one edit away from s: a character left out, two neighbours
\* exchanged, a character replaced by a letter, a character put in.
Mangled(s) ==
    {SubSeq(s, 1, i - 1) \o SubSeq(s, i + 1, Len(s)) : i \in 1..Len(s)}
        \cup {[s EXCEPT ![i] = s[i + 1], ![i + 1] = s[i]] : i \in 1..(Len(s) - 1)}
        \cup {[s EXCEPT ![i] = "x"] : i \in 1..Len(s)}
        \cup {SubSeq(s, 1, i - 1) \o <<c>> \o SubSeq(s, i, Len(s)) :
                i \in 1..(Len(s) + 1), c \in {"0", "S"}}

ParseInputs(text) ==
    DurationTexts
        \cup (IF text = None THEN {} ELSE {text[1]} \cup Mangled(text[1]))

\* History of a run over a timestamp: the timestamp, and what the grid
\* functions and create_iso8601_str gave for it (None before they ran).
TimeHistInit(seconds) ==
    [seconds |-> seconds, short_end |-> None, long_end |-> None, text |-> None]

InitTime ==
    /\ unit = "time"
    /\ \E seconds \in TimeValues :
            /\ result = Call("Timestamp", "-", seconds, Unit)
            /\ hist = TimeHistInit(seconds)
    /\ door = Door_default
    /\ power = Power_default
    /\ agg = TemperatureAggregator_new(TemperatureSample(None, None), 0)
    /\ ncalls = 0

\* A call of a function of timestamp.rs, recorded.
TimeCall(op, event, val, h) ==
    /\ unit = "time"
    /\ result' = Call(op, event, hist.seconds, val)
    /\ hist' = h
    /\ UNCHANGED <<unit, door, power, agg, ncalls>>

TimeGetLastShortSampleEnd ==
    LET end == get_last_short_sample_end(hist.seconds)
    IN  TimeCall("get_last_short_sample_end", "-", end,
                 [hist EXCEPT !.short_end = Some(end)])

TimeGetLastLongSampleEnd ==
    LET end == get_last_long_sample_end(hist.seconds)
    IN  TimeCall("get_last_long_sample_end", "-", end,
                 [hist EXCEPT !.long_end = Some(end)])

TimeToDhms ==
    TimeCall("to_dhms", "-", to_dhms(hist.seconds), hist)

TimeCreateIso8601Str ==
    LET text == create_iso8601_str(hist.seconds)
    IN  TimeCall("create_iso8601_str", "-", text, [hist EXCEPT !.text = Some(text)])

TimeParseDuration ==
    \E input \in ParseInputs(hist.text) :
        TimeCall("parse_duration", input, parse_duration(input), hist)

TimeNext ==
    \/ TimeGetLastShortSampleEnd
    \/ TimeGetLastLongSampleEnd
    \/ TimeToDhms
    \/ TimeCreateIso8601Str
    \/ TimeParseDuration

SpecTime == InitTime /\ [][TimeNext]_vars

----------------------------------------------------------------------------
(* Properties *)

\* The query times of the tracker under test.
DoorQueryTimes == QueryTimes(door.last_event_ts, DOOR_ALARM_THRESHOLD)

PowerQueryTimes == QueryTimes(power.last_event_ts, POWER_ALARM_THRESHOLD)

\* A step that is a mutating call (log_event, reset_short_sample or
\* reset_long_sample), recorded in result'.
IsCall == ncalls' = ncalls + 1

\* C1: for the door and the power tracker alike, a call of log_event,
\* reset_short_sample or reset_long_sample returns Err(OutOfOrder) exactly
\* when its timestamp is strictly less than the timestamp of the most
\* recently accepted call (the construction time at first), and a rejected
\* call leaves every field of the tracker unchanged.
C1_OutOfOrderExactlyWhenEarlier ==
    [][IsCall =>
          /\ (result'.val = OutOfOrder) <=> (result'.ts < hist.last_accepted)
          /\ (result'.val = OutOfOrder) => (door' = door /\ power' = power)]_vars

\* A reset of the door with an earlier timestamp was rejected.
C1_Witness ==
    /\ unit = "door"
    /\ result.op = "reset_short_sample"
    /\ result.val = OutOfOrder
    /\ door.last_event_ts > result.ts

\* C2: while the calls come with non-decreasing timestamps, none earlier
\* than the construction time, every call returns Ok.
C2_InOrderCallsAccepted == hist.monotone => result.val = Ok

\* A third call in a row with the timestamp of the one before was accepted
\* by the power tracker.
C2_Witness ==
    /\ unit = "power"
    /\ hist.monotone
    /\ ncalls = 3
    /\ result.val = Ok
    /\ result.ts = 0

\* C3 as claimed: with non-decreasing timestamps and no reset, both
\* accumulators equal the summed length of the completed openings, an opening
\* running from the moment the door became open to the next Closed event.
C3_AccumIsSumOfOpenings ==
    (unit = "door" /\ hist.monotone /\ ~hist.reset_seen) =>
        /\ door.short_open_accum = hist.completed
        /\ door.long_open_accum = hist.completed

\* C4: get_short_sample(now) and get_long_sample(now) return the window's
\* open_count and its open_accum plus get_idrv(now), and get_idrv(now) is
\* now - opened while the door is open and now >= opened, 0 otherwise.
C4_SampleIsAccumPlusLiveOpen ==
    unit = "door" =>
        \A now \in DoorQueryTimes :
            /\ Door_get_idrv(door, now) =
                   IF door.opened # None /\ now >= door.opened[1]
                   THEN now - door.opened[1] ELSE 0
            /\ Door_get_short_sample(door, now) =
                   <<door.short_open_count,
                     door.short_open_accum + Door_get_idrv(door, now)>>
            /\ Door_get_long_sample(door, now) =
                   <<door.long_open_count,
                     door.long_open_accum + Door_get_idrv(door, now)>>

\* The door is open again after a completed opening, and there are query
\* times before and after the moment it was opened.
C4_Witness ==
    /\ unit = "door"
    /\ door.opened # None
    /\ door.long_open_accum > 0
    /\ \E now \in DoorQueryTimes : now < door.opened[1]
    /\ \E now \in DoorQueryTimes : now > door.opened[1]

\* C5: is_short_sample_alarmed(now) and is_long_sample_alarmed(now) equal
\* the window's stored flag or (the door is open and now - opened > 300).
C5_AlarmIsFlagOrLiveExcursion ==
    unit = "door" =>
        \A now \in DoorQueryTimes :
            LET live == door.opened # None /\ now - door.opened[1] > 300
            IN  /\ Door_is_short_sample_alarmed(door, now) = (door.short_alarmed \/ live)
                /\ Door_is_long_sample_alarmed(door, now) = (door.long_alarmed \/ live)

\* The door is open with no stored flag, and is queried at exactly 300 s and
\* at 301 s after it was opened.
C5_Witness ==
    /\ unit = "door"
    /\ ncalls > 0
    /\ door.opened # None
    /\ ~door.short_alarmed /\ ~door.long_alarmed
    /\ door.opened[1] + 300 \in DoorQueryTimes
    /\ door.opened[1] + 301 \in DoorQueryTimes

\* C6 as claimed: once an opening of at least 300 s was closed, the window
\* reports its alarm at every later query time, whatever events follow, until
\* the window is reset.
C6_AlarmStaysUntilReset ==
    unit = "door" =>
        \A now \in {t \in DoorQueryTimes : t >= hist.last_accepted} :
            /\ hist.long_closed_short => Door_is_short_sample_alarmed(door, now)
            /\ hist.long_closed_long => Door_is_long_sample_alarmed(door, now)

\* C7: an accepted reset_short_sample(ts) zeroes the short window, records ts
\* as its boundary and leaves the long window and `opened` alone; an accepted
\* reset_long_sample(ts) does the same with the windows exchanged.
C7_ResetTouchesOneWindow ==
    [][(IsCall /\ result'.val = Ok) =>
          /\ result'.op = "reset_short_sample" =>
                /\ door'.short_open_count = 0
                /\ door'.short_open_accum = 0
                /\ door'.short_alarmed = FALSE
                /\ door'.prev_short_sample_ended = result'.ts
                /\ door'.long_open_count = door.long_open_count
                /\ door'.long_open_accum = door.long_open_accum
                /\ door'.long_alarmed = door.long_alarmed
                /\ door'.prev_long_sample_ended = door.prev_long_sample_ended
                /\ door'.opened = door.opened
          /\ result'.op = "reset_long_sample" =>
                /\ door'.long_open_count = 0
                /\ door'.long_open_accum = 0
                /\ door'.long_alarmed = FALSE
                /\ door'.prev_long_sample_ended = result'.ts
                /\ door'.short_open_count = door.short_open_count
                /\ door'.short_open_accum = door.short_open_accum
                /\ door'.short_alarmed = door.short_alarmed
                /\ door'.prev_short_sample_ended = door.prev_short_sample_ended
                /\ door'.opened = door.opened]_vars

\* The long window was reset while the short window held a count, an
\* accumulated time and its alarm.
C7_Witness ==
    /\ unit = "door"
    /\ result.op = "reset_long_sample"
    /\ result.val = Ok
    /\ door.short_open_count > 0
    /\ door.short_open_accum > 0
    /\ door.short_alarmed
    /\ door.prev_long_sample_ended > door.prev_short_sample_ended

\* C8: an accepted Off(ts) received while the status is On(on_ts) adds
\* ts - on_ts to both accumulators; no other log_event call changes them.
C8_OffAddsOnDuration ==
    [][(IsCall /\ result'.op = "log_event") =>
          IF result'.val = Ok /\ result'.event = "Off" /\ power.status.kind = "On"
          THEN /\ power'.short_power_accum =
                      power.short_power_accum + (result'.ts - power.status.ts)
               /\ power'.long_power_accum =
                      power.long_power_accum + (result'.ts - power.status.ts)
          ELSE /\ power'.short_power_accum = power.short_power_accum
               /\ power'.long_power_accum = power.long_power_accum]_vars

\* An Off event was accepted after the power had been on for a while, the
\* short window having been reset in between.
C8_Witness ==
    /\ unit = "power"
    /\ result.op = "log_event" /\ result.event = "Off" /\ result.val = Ok
    /\ power.short_power_accum > 0
    /\ power.prev_short_sample_ended > power.prev_long_sample_ended
    /\ power.long_power_accum = power.short_power_accum

C10_LiveAlarmAtThreshold ==
    (unit = "power" /\ power.status.kind = "Off") =>
        \A now \in PowerQueryTimes :
            /\ now - power.status.ts >= 86400 =>
                  /\ Power_is_short_sample_alarmed(power, now)
                  /\ Power_is_long_sample_alarmed(power, now)
            /\ (~power.short_alarmed /\ ~power.long_alarmed
                    /\ now - power.status.ts < 86400) =>
                  /\ ~Power_is_short_sample_alarmed(power, now)
                  /\ ~Power_is_long_sample_alarmed(power, now)

\* C10 as amended: while the status is Off(off_start), both alarm queries
\* return true for every now with now - off_start > 86400 and, with no
\* stored flag, false for every now with now - off_start <= 86400.
C10_LiveAlarmAboveThreshold ==
    (unit = "power" /\ power.status.kind = "Off") =>
        \A now \in PowerQueryTimes :
            /\ now - power.status.ts > 86400 =>
                  /\ Power_is_short_sample_alarmed(power, now)
                  /\ Power_is_long_sample_alarmed(power, now)
            /\ (~power.short_alarmed /\ ~power.long_alarmed
                    /\ now - power.status.ts <= 86400) =>
                  /\ ~Power_is_short_sample_alarmed(power, now)
                  /\ ~Power_is_long_sample_alarmed(power, now)

\* The power went off after it had been on, no flag is stored, and the
\* tracker is queried at exactly 86400 s and at 86401 s after off_start.
C10_Witness ==
    /\ unit = "power"
    /\ result.op = "log_event" /\ result.event = "Off" /\ result.val = Ok
    /\ power.short_power_accum > 0
    /\ ~power.short_alarmed /\ ~power.long_alarmed
    /\ power.status.ts + 86400 \in PowerQueryTimes
    /\ power.status.ts + 86401 \in PowerQueryTimes

\* C11: with the power off since off_start and no stored alarm flag, the
\* alarm queries return false at exactly off_start + 86400, and return true
\* only for a now beyond off_start + 86400.
C11_NoLiveAlarmAtExactThreshold ==
    (unit = "power" /\ power.status.kind = "Off"
        /\ ~power.short_alarmed /\ ~power.long_alarmed) =>
        LET off_start == power.status.ts
        IN  /\ ~Power_is_short_sample_alarmed(power, off_start + 86400)
            /\ ~Power_is_long_sample_alarmed(power, off_start + 86400)
            /\ \A now \in PowerQueryTimes \cup {off_start + 86400, off_start + 86401} :
                  /\ Power_is_short_sample_alarmed(power, now) => now > off_start + 86400
                  /\ Power_is_long_sample_alarmed(power, now) => now > off_start + 86400

\* The tracker was constructed with the power off, nothing is stored in its
\* flags after a reset of each window, and one second past the threshold
\* both queries report the outage.
C11_Witness ==
    /\ unit = "power"
    /\ power.status.kind = "Off"
    /\ result.op = "reset_long_sample" /\ result.val = Ok
    /\ power.prev_short_sample_ended > power.status.ts
    /\ ~power.short_alarmed /\ ~power.long_alarmed
    /\ Power_is_short_sample_alarmed(power, power.status.ts + 86401)
    /\ Power_is_long_sample_alarmed(power, power.status.ts + 86401)

\* C12 as claimed: an add_sample call whose timestamp is earlier than that of
\* the last processed sample returns an explicit error and leaves the
\* aggregator as it was.
C12_EarlierSampleRejected ==
    (unit = "temp" /\ result.op = "add_sample"
        /\ result.ts < hist.before.last_short_sample_ts) =>
        /\ result.val = OutOfOrder
        /\ agg = hist.before

C14_GoodInitialReadingInRange ==
    (unit = "temp" /\ result.op = "new" /\ result.event.vaccine # None) =>
        LET v == result.event.vaccine[1]
        IN  (200 <= v /\ v <= 800) => agg.status = InRange

\* C15: after every add_sample(_, now) of a run with non-decreasing
\* timestamps, the state is never HotNoAlarm(start) with now - start >= 36000,
\* never HotAlarm(start) with now - start < 36000, never FreezeNoAlarm with
\* now - freeze_start >= 3600 and never FreezeAlarm with
\* now - freeze_start < 3600.
C15_PersistenceAgreesWithElapsed ==
    (unit = "temp" /\ result.op = "add_sample" /\ hist.monotone) =>
        LET now == result.ts
            s == agg.status
        IN  /\ s.kind = "HotNoAlarm" => now - s.ts < 36000
            /\ s.kind = "HotAlarm" => now - s.ts >= 36000
            /\ s.kind = "FreezeNoAlarm" => now - s.cold_ts.freeze_start < 3600
            /\ s.kind = "FreezeAlarm" => now - s.cold_ts.freeze_start >= 3600

\* A sample without a vaccine reading, taken exactly 36000 s after a hot
\* start that lies after the construction, found HotNoAlarm and left HotAlarm.
C15_Witness ==
    /\ unit = "temp"
    /\ result.op = "add_sample"
    /\ hist.monotone
    /\ result.event.vaccine = None
    /\ hist.before.status.kind = "HotNoAlarm"
    /\ agg.status.kind = "HotAlarm"
    /\ agg.status.ts > hist.start
    /\ result.ts - agg.status.ts = 36000

\* C16 as claimed: when every vaccine reading since the hot start `start` was
\* above 8.0 and no finalize happened after start + 36000, then after an
\* add_sample at now >= start + 36000 the record's high_alarm_seconds is
\* now - (start + 36000), whatever the spacing of the samples.
C16_HighAlarmSecondsSinceThreshold ==
    (/\ unit = "temp"
     /\ result.op = "add_sample"
     /\ hist.monotone
     /\ hist.all_hot
     /\ result.ts >= hist.start + 36000
     /\ hist.last_finalize # None => hist.last_finalize[1] <= hist.start + 36000) =>
        agg.long_record.high_alarm_seconds = result.ts - (hist.start + 36000)

\* C17: finalize_long_record returns the long record as it was before the
\* call, leaves the stored record with every field zero, sets
\* prev_long_sample_ended to the timestamp of the last processed sample, and
\* leaves the alarm state with its start timestamps, the last ambient and
\* vaccine values and the last sample timestamp unchanged.
C17_FinalizeReturnsAndClearsRecord ==
    (unit = "temp" /\ result.op = "finalize_long_record") =>
        /\ result.val = hist.before.long_record
        /\ agg.long_record.tvc_sum = SumZero
        /\ agg.long_record.tamb_sum = SumZero
        /\ \A f \in DOMAIN agg.long_record \ {"tvc_sum", "tamb_sum"} :
              agg.long_record[f] = 0
        /\ agg.prev_long_sample_ended = hist.before.last_short_sample_ts
        /\ agg.status = hist.before.status
        /\ agg.last_ambient_temp = hist.before.last_ambient_temp
        /\ agg.last_vaccine_temp = hist.before.last_vaccine_temp
        /\ agg.last_short_sample_ts = hist.before.last_short_sample_ts

\* A record with alarm time in it was finalized while the hot alarm was on,
\* at a sample timestamp after the long boundary held before.
C17_Witness ==
    /\ unit = "temp"
    /\ result.op = "finalize_long_record"
    /\ result.val.high_alarm_seconds > 0
    /\ result.val.tvc_max > 0
    /\ agg.status.kind = "HotAlarm"
    /\ agg.prev_long_sample_ended > hist.before.prev_long_sample_ended

\* C18: for any sample sequence, the run with finalize_long_record calls
\* inserted goes through the same alarm states and gives the same
\* is_high_alarm and is_low_alarm results as the run without them, and each
\* seconds counter summed over the finalized records and the current record
\* equals the counter of the run without finalize.
C18_FinalizeKeepsAlarmMachine ==
    unit = "temp" =>
        /\ agg.status = hist.plain.status
        /\ TemperatureAggregator_is_high_alarm(agg) =
               TemperatureAggregator_is_high_alarm(hist.plain)
        /\ TemperatureAggregator_is_low_alarm(agg) =
               TemperatureAggregator_is_low_alarm(hist.plain)
        /\ CountersSum(hist.done, Counters(agg.long_record)) =
               Counters(hist.plain.long_record)

\* A record was finalized in the sample that raised the hot alarm, and the
\* next sample charged alarm time to the new record: the hot time of the run
\* is split over the finalized record and the current one.
C18_Witness ==
    /\ unit = "temp"
    /\ result.op = "add_sample"
    /\ hist.last_finalize # None
    /\ agg.status.kind = "HotAlarm"
    /\ hist.done.tvc_high_seconds > 0
    /\ hist.done.high_alarm_seconds = 0
    /\ agg.long_record.high_alarm_seconds > 0
    /\ agg.long_record.tvc_high_seconds < hist.plain.long_record.tvc_high_seconds

\* C19: once a vaccine reading has been observed, the long record has
\* tvc_min <= tvc_max after construction, after every add_sample and after
\* every finalize_long_record.
C19_MinNotAboveMax ==
    (unit = "temp" /\ agg.last_vaccine_temp # None) =>
        agg.long_record.tvc_min <= agg.long_record.tvc_max

\* The first sample after a finalize refilled the emptied record from two
\* different vaccine values, the current one being the lower.
C19_Witness ==
    /\ unit = "temp"
    /\ result.op = "add_sample"
    /\ hist.last_finalize # None
    /\ hist.before.long_record = TempLongRecord_default
    /\ result.event.vaccine # None
    /\ hist.before.last_vaccine_temp # None
    /\ agg.long_record.tvc_min = result.event.vaccine[1]
    /\ agg.long_record.tvc_max = hist.before.last_vaccine_temp[1]
    /\ agg.long_record.tvc_min < agg.long_record.tvc_max

\* C20 as claimed: in every reachable state of the door and of the power
\* tracker, prev_long_sample_ended <= prev_short_sample_ended <= last_event_ts.
C20_LongBeforeShortBeforeLastEvent ==
    /\ door.prev_long_sample_ended <= door.prev_short_sample_ended
    /\ door.prev_short_sample_ended <= door.last_event_ts
    /\ power.prev_long_sample_ended <= power.prev_short_sample_ended
    /\ power.prev_short_sample_ended <= power.last_event_ts

\* C20 as amended: in every reachable state of the door and of the power
\* tracker, each of the two window boundaries is <= last_event_ts; the long
\* boundary is <= the short one at construction, and every call other than
\* reset_long_sample keeps it so.
C20_BoundariesBeforeLastEvent ==
    /\ [](/\ door.prev_short_sample_ended <= door.last_event_ts
          /\ door.prev_long_sample_ended <= door.last_event_ts
          /\ power.prev_short_sample_ended <= power.last_event_ts
          /\ power.prev_long_sample_ended <= power.last_event_ts
          /\ ncalls = 0 =>
                /\ door.prev_long_sample_ended <= door.prev_short_sample_ended
                /\ power.prev_long_sample_ended <= power.prev_short_sample_ended)
    /\ [][(IsCall /\ result'.op # "reset_long_sample") =>
             /\ door.prev_long_sample_ended <= door.prev_short_sample_ended =>
                   door'.prev_long_sample_ended <= door'.prev_short_sample_ended
             /\ power.prev_long_sample_ended <= power.prev_short_sample_ended =>
                   power'.prev_long_sample_ended <= power'.prev_short_sample_ended]_vars

\* A door constructed past the first long boundary had its short window
\* reset at a later time: the short boundary is the reset time, after the
\* long one and not after the last event.
C20_Witness ==
    /\ unit = "door"
    /\ result.op = "reset_short_sample" /\ result.val = Ok
    /\ door.prev_long_sample_ended = LONG_SAMPLE_PERIOD
    /\ door.prev_short_sample_ended > LONG_SAMPLE_PERIOD + SHORT_SAMPLE_PERIOD
    /\ door.prev_short_sample_ended = door.last_event_ts

\* Order of two u32 values held by their signed representatives: a negative
\* representative stands for a value of 2^31 or more.
U32Lt(a, b) ==
    IF (a < 0) = (b < 0) THEN a < b ELSE b < 0

\* C21 as claimed: no add_sample call decreases any of tvc_seconds,
\* tamb_seconds, tvc_low_seconds, tvc_high_seconds, low_alarm_seconds and
\* high_alarm_seconds, and no log_event of the door or the power tracker
\* decreases an open count or an accumulator of either window.
C21_CountersOnlyGrow ==
    [][/\ (unit = "temp" /\ IsCall /\ result'.op = "add_sample") =>
            \A f \in DOMAIN Counters(agg.long_record) :
                ~U32Lt(Counters(agg'.long_record)[f], Counters(agg.long_record)[f])
       /\ (unit = "door" /\ IsCall /\ result'.op = "log_event") =>
            /\ door'.short_open_count >= door.short_open_count
            /\ door'.long_open_count >= door.long_open_count
            /\ door'.short_open_accum >= door.short_open_accum
            /\ door'.long_open_accum >= door.long_open_accum
       /\ (unit = "power" /\ IsCall /\ result'.op = "log_event") =>
            /\ power'.short_power_accum >= power.short_power_accum
            /\ power'.long_power_accum >= power.long_power_accum]_vars

\* C22 as claimed: when the aggregator was constructed at t0 with both
\* readings present, the first add_sample, at t1 >= t0 and with both readings
\* present, leaves tvc_seconds = tamb_seconds = t1 - t0.
C22_FirstSampleCountsFromConstruction ==
    (/\ unit = "temp"
     /\ ncalls = 1
     /\ result.op = "add_sample"
     /\ result.val = Unit
     /\ hist.before.last_vaccine_temp # None
     /\ hist.before.last_ambient_temp # None
     /\ result.event.vaccine # None
     /\ result.event.ambient # None
     /\ result.ts >= hist.start) =>
        /\ agg.long_record.tvc_seconds = result.ts - hist.start
        /\ agg.long_record.tamb_seconds = result.ts - hist.start

\* C23: for every timestamp ts, get_last_long_sample_end(ts) <=
\* get_last_short_sample_end(ts) <= ts; the short result is a multiple of 900
\* less than 900 below ts, the long result a multiple of 28800 less than
\* 28800 below ts.
C23_GridEndsOrderedAndAligned ==
    unit = "time" =>
        LET ts == hist.seconds
        IN  /\ hist.short_end # None =>
                /\ hist.short_end[1] <= ts
                /\ hist.short_end[1] % 900 = 0
                /\ ts - hist.short_end[1] < 900
            /\ hist.long_end # None =>
                /\ hist.long_end[1] <= ts
                /\ hist.long_end[1] % 28800 = 0
                /\ ts - hist.long_end[1] < 28800
            /\ (hist.short_end # None /\ hist.long_end # None) =>
                hist.long_end[1] <= hist.short_end[1]

\* Both functions ran on a timestamp off both grids whose short period began
\* after its long period.
C23_Witness ==
    /\ unit = "time"
    /\ hist.short_end # None
    /\ hist.long_end # None
    /\ hist.long_end[1] < hist.short_end[1]
    /\ hist.short_end[1] < hist.seconds
    /\ hist.long_end[1] > 0

\* C24 as claimed: for every Timestamp, parse_duration of the text that
\* create_iso8601_str wrote returns Some of its to_dhms, durations of a whole
\* number of days included.
C24_DurationRoundTrip ==
    (/\ unit = "time"
     /\ result.op = "parse_duration"
     /\ hist.text # None
     /\ result.event = hist.text[1]) =>
        result.val = Some(to_dhms(hist.seconds))

\* A field of a duration text: decimal digits, with or without a '+' sign.
IsIntegerField(s) ==
    LET digits == IF Len(s) > 1 /\ s[1] = "+" THEN Tail(s) ELSE s
    IN  Len(digits) > 0 /\ \A i \in 1..Len(digits) : IsDigit(digits[i])

\* Texts of the form P<d>DT<h>H<m>M<s>S, nothing before and nothing after.
IsFullDuration(s) ==
    \E d, h, m \in 1..Len(s) :
        /\ d < h /\ h < m /\ m < Len(s)
        /\ s[1] = "P" /\ s[d] = "D" /\ s[d + 1] = "T"
        /\ s[h] = "H" /\ s[m] = "M" /\ s[Len(s)] = "S"
        /\ IsIntegerField(SubSeq(s, 2, d - 1))
        /\ IsIntegerField(SubSeq(s, d + 2, h - 1))
        /\ IsIntegerField(SubSeq(s, h + 1, m - 1))
        /\ IsIntegerField(SubSeq(s, m + 1, Len(s) - 1))

\* C25 as claimed: parse_duration returns Some only for the text P0DT0S and
\* for texts of the form P<d>DT<h>H<m>M<s>S with four non-negative integer
\* fields; for every other text, one with characters after the final S
\* included, it returns None.
C25_ParseAcceptsOnlyExactForms ==
    (unit = "time" /\ result.op = "parse_duration" /\ result.val # None) =>
        \/ result.event = <<"P", "0", "D", "T", "0", "S">>
        \/ IsFullDuration(result.event)

\* The alarm states a vaccine reading admits: Hot above 8.0, Freeze at or
\* below -0.5, Cold between -0.5 and 2.0, InRange from 2.0 to 8.0.
KindsOfReading(v) ==
    IF v > 800 THEN {"HotNoAlarm", "HotAlarm"}
    ELSE IF v <= -50 THEN {"FreezeNoAlarm", "FreezeAlarm"}
    ELSE IF v < 200 THEN {"Cold"}
    ELSE {"InRange"}

\* Vaccine readings next to the thresholds that no sample of the run has.
ProbeReadings == {-51, -49, 200}

\* C26: after add_sample with a present vaccine reading v the alarm state is
\* HotNoAlarm or HotAlarm when v > 8.0, FreezeNoAlarm or FreezeAlarm when
\* v <= -0.5, Cold when -0.5 < v < 2.0 and InRange when 2.0 <= v <= 8.0,
\* whatever the state before; checked on the call just made and on the call
\* that would follow with a reading next to a threshold.
C26_StateClassFromReading ==
    unit = "temp" =>
        /\ (result.op = "add_sample" /\ result.val = Unit
                /\ result.event.vaccine # None) =>
              agg.status.kind \in KindsOfReading(result.event.vaccine[1])
        /\ \A v \in ProbeReadings :
              TemperatureAggregator_add_sample(
                  agg, TemperatureSample(None, Some(v)),
                  agg.last_short_sample_ts + SHORT_SAMPLE_PERIOD).status.kind
                      \in KindsOfReading(v)

\* A hot alarm left for the freeze state, and a freeze alarm left for the
\* good range, by one reading each.
C26_Witness ==
    /\ unit = "temp"
    /\ hist.monotone
    /\ result.op = "add_sample"
    /\ result.val = Unit
    /\ result.event.vaccine # None
    /\ \/ /\ hist.before.status.kind = "HotAlarm"
          /\ agg.status.kind = "FreezeNoAlarm"
       \/ /\ hist.before.status.kind = "FreezeAlarm"
          /\ agg.status.kind = "InRange"

\* C27 as claimed, for runs whose timestamps never decrease: while the present
\* vaccine readings stay below 2.0 the cool_start of the Cold or Freeze state
\* is the timestamp of the first reading of the run; while they stay at or
\* below -0.5 the freeze_start is the timestamp of the first of them; while
\* they stay above 8.0 the hot start is the timestamp of the first of them.
C27_ExcursionStartsCarried ==
    (unit = "temp" /\ hist.monotone) =>
        LET s == agg.status
        IN  /\ (hist.cool_run # None /\ s.kind = "Cold") =>
                    s.ts = hist.cool_run[1]
            /\ (hist.cool_run # None /\ s.kind \in {"FreezeNoAlarm", "FreezeAlarm"}) =>
                    s.cold_ts.cool_start = hist.cool_run[1]
            /\ (hist.freeze_run # None /\ s.kind \in {"FreezeNoAlarm", "FreezeAlarm"}) =>
                    s.cold_ts.freeze_start = hist.freeze_run[1]
            /\ (hist.hot_run # None /\ s.kind \in {"HotNoAlarm", "HotAlarm"}) =>
                    s.ts = hist.hot_run[1]

C30_AbsentVaccineReading ==
    (unit = "temp" /\ result.op = "add_sample" /\ result.val = Unit
        /\ result.event.vaccine = None) =>
        LET before == hist.before
            delta == result.ts - before.last_short_sample_ts
            prev == before.last_vaccine_temp
        IN  /\ \/ agg.status = before.status
               \/ /\ before.status.kind = "HotNoAlarm"
                  /\ agg.status = HotAlarm(before.status.ts)
               \/ /\ before.status.kind = "FreezeNoAlarm"
                  /\ agg.status = FreezeAlarm(before.status.cold_ts)
            /\ agg.last_vaccine_temp = prev
            /\ agg.last_vaccine_ts = before.last_vaccine_ts
            /\ agg.last_short_sample_ts = result.ts
            /\ prev # None =>
                /\ agg.long_record.tvc_seconds = before.long_record.tvc_seconds + delta
                /\ agg.long_record.tvc_sum
                      = SumAdd(before.long_record.tvc_sum, 2 * prev[1], delta)
            /\ prev = None =>
                /\ agg.long_record.tvc_seconds = before.long_record.tvc_seconds
                /\ agg.long_record.tvc_sum = before.long_record.tvc_sum

\* A sample without a vaccine reading, 36000 s after a hot reading, raised
\* the hot alarm and integrated the stored reading over the whole interval.
C30_Witness ==
    /\ unit = "temp"
    /\ hist.monotone
    /\ result.op = "add_sample"
    /\ result.val = Unit
    /\ result.event.vaccine = None
    /\ hist.before.status.kind = "HotNoAlarm"
    /\ agg.status.kind = "HotAlarm"
    /\ hist.before.last_vaccine_temp # None
    /\ agg.last_vaccine_ts # Some(result.ts)
    /\ agg.long_record.tvc_seconds > hist.before.long_record.tvc_seconds

\* What one interval adds to a sum held doubled as [wraps, units]: twice the
\* average times the delta, a wrapped delta being 2^32 more than its
\* representative.
SumGrownBy(before, after, twice_avg, delta) ==
    /\ after.units = before.units + twice_avg * delta
    /\ after.wraps = before.wraps + (IF delta < 0 THEN twice_avg ELSE 0)

C32_NoNegativeDuration ==
    /\ [](/\ door.opened # None => door.opened[1] <= door.last_event_ts
          /\ power.status.ts <= power.last_event_ts)
    /\ [][(IsCall /\ result'.op = "log_event" /\ result'.val = Ok) =>
             /\ (unit = "door" /\ result'.event = "Closed" /\ door.opened # None) =>
                    result'.ts - door.opened[1] >= 0
             /\ unit = "power" => result'.ts - power.status.ts >= 0]_vars

\* An accepted Closed measured a positive duration in a run that also had a
\* window reset.
C32_Witness ==
    /\ unit = "door"
    /\ result.op = "log_event"
    /\ result.event = "Closed"
    /\ result.val = Ok
    /\ hist.reset_seen
    /\ door.long_open_accum > 0

\* C33 as claimed: in every reachable door state and for every query time
\* now >= last_event_ts, the open seconds of get_short_sample(now) are at most
\* now - prev_short_sample_ended and those of get_long_sample(now) at most
\* now - prev_long_sample_ended.
C33_OpenSecondsWithinWindow ==
    unit = "door" =>
        \A now \in {t \in DoorQueryTimes : t >= door.last_event_ts} :
            /\ Door_get_short_sample(door, now)[2] <= now - door.prev_short_sample_ended
            /\ Door_get_long_sample(door, now)[2] <= now - door.prev_long_sample_ended

\* An accepted Closed that finds the door open and both stored alarm flags
\* false.
ClosesUnalarmedDoor ==
    /\ unit = "door"
    /\ IsCall
    /\ result'.op = "log_event"
    /\ result'.event = "Closed"
    /\ result'.val = Ok
    /\ door.opened # None
    /\ ~door.short_alarmed
    /\ ~door.long_alarmed

\* C34 as claimed: for a door that is open with both stored alarm flags
\* false, is_short_sample_alarmed(t) and is_long_sample_alarmed(t) give the
\* same answer immediately before and immediately after an accepted
\* Closed(t).
C34_LiveAndLatchedAgreeAtClose ==
    [][ClosesUnalarmedDoor =>
          LET t == result'.ts
          IN  /\ Door_is_short_sample_alarmed(door, t)
                    = Door_is_short_sample_alarmed(door', t)
              /\ Door_is_long_sample_alarmed(door, t)
                    = Door_is_long_sample_alarmed(door', t)]_vars

\* C34 as amended: the answers before and after an accepted Closed(t) agree
\* for every t other than opened + 300; at t = opened + 300 both queries are
\* false before the Closed and true after it.
C34_LiveAndLatchedAgreeOffThreshold ==
    [][ClosesUnalarmedDoor =>
          LET t == result'.ts
              at_threshold == t = door.opened[1] + 300
          IN  /\ ~at_threshold =>
                    /\ Door_is_short_sample_alarmed(door, t)
                          = Door_is_short_sample_alarmed(door', t)
                    /\ Door_is_long_sample_alarmed(door, t)
                          = Door_is_long_sample_alarmed(door', t)
              /\ at_threshold =>
                    /\ ~Door_is_short_sample_alarmed(door, t)
                    /\ ~Door_is_long_sample_alarmed(door, t)
                    /\ Door_is_short_sample_alarmed(door', t)
                    /\ Door_is_long_sample_alarmed(door', t)]_vars

\* A door open since its construction was closed exactly 300 s later, as the
\* first call of the run, and both flags were latched.
C34_Witness ==
    /\ unit = "door"
    /\ ncalls = 1
    /\ result.op = "log_event"
    /\ result.event = "Closed"
    /\ result.val = Ok
    /\ hist.completed = 300
    /\ door.short_alarmed
    /\ door.long_alarmed

\* C35 as claimed: an accepted On(t2) received while the status is On(t1)
\* leaves get_short_sample(now) and get_long_sample(now) as they were for
\* every now >= t2, and an accepted Off(t2) received while the status is
\* Off(t1) leaves is_short_sample_alarmed(now) and is_long_sample_alarmed(now)
\* as they were for every now >= t2.
C35_RedundantPowerEventHarmless ==
    [][(unit = "power" /\ IsCall /\ result'.op = "log_event" /\ result'.val = Ok) =>
          \A now \in {t \in QueryTimes(result'.ts, POWER_ALARM_THRESHOLD) :
                         t >= result'.ts} :
              /\ (result'.event = "On" /\ power.status.kind = "On") =>
                    /\ Power_get_short_sample(power', now)
                          = Power_get_short_sample(power, now)
                    /\ Power_get_long_sample(power', now)
                          = Power_get_long_sample(power, now)
              /\ (result'.event = "Off" /\ power.status.kind = "Off") =>
                    /\ Power_is_short_sample_alarmed(power', now)
                          = Power_is_short_sample_alarmed(power, now)
                    /\ Power_is_long_sample_alarmed(power', now)
                          = Power_is_long_sample_alarmed(power, now)]_vars

\* C36 as claimed: in every reachable state, is_low_alarm() implies that the
\* most recent present vaccine reading, the initial one included, exists and
\* is <= -0.5; is_high_alarm() implies that it exists and is > 8.0; the two
\* are never true together.
C36_AlarmOnlyOnReading ==
    unit = "temp" =>
        LET last == agg.last_vaccine_temp
        IN  /\ TemperatureAggregator_is_low_alarm(agg) =>
                    (last # None /\ last[1] <= -50)
            /\ TemperatureAggregator_is_high_alarm(agg) =>
                    (last # None /\ last[1] > 800)
            /\ ~(TemperatureAggregator_is_low_alarm(agg)
                    /\ TemperatureAggregator_is_high_alarm(agg))

\* a <= b read as u32 values.
U32Le(a, b) == ~U32Lt(b, a)

\* C37 as claimed: in every reachable long record, whatever the construction
\* input and the samples, samples without a vaccine reading included,
\* high_alarm_seconds <= tvc_high_seconds and
\* low_alarm_seconds <= tvc_low_seconds.
C37_AlarmDwellWithinRangeDwell ==
    unit = "temp" =>
        /\ U32Le(agg.long_record.high_alarm_seconds,
                 agg.long_record.tvc_high_seconds)
        /\ U32Le(agg.long_record.low_alarm_seconds,
                 agg.long_record.tvc_low_seconds)

\* 1 for a u32 value of 2^31 or more, held by its negative representative.
U32High(x) == IF x < 0 THEN 1 ELSE 0

\* a + b <= c over the naturals the three u32 values stand for.
U32SumLe(a, b, c) ==
    LET d == U32High(a) + U32High(b) - U32High(c)
    IN  IF d > 0 THEN FALSE
        ELSE IF d < 0 THEN TRUE
        ELSE a + b <= c

\* C38 as claimed: in every reachable long record,
\* tvc_low_seconds + tvc_high_seconds <= tvc_seconds.
C38_RangeDwellWithinVaccineSeconds ==
    unit = "temp" =>
        U32SumLe(agg.long_record.tvc_low_seconds,
                 agg.long_record.tvc_high_seconds,
                 agg.long_record.tvc_seconds)

\* The start timestamps an alarm state holds.
StatusStarts(s) ==
    IF s.kind \in {"HotNoAlarm", "HotAlarm", "Cold"} THEN {s.ts}
    ELSE IF s.kind \in {"FreezeNoAlarm", "FreezeAlarm"}
         THEN {s.cold_ts.cool_start, s.cold_ts.freeze_start}
    ELSE {}

\* C39 as claimed: in every reachable aggregator state, from construction on,
\* every start timestamp held in the alarm state is <= the last sample
\* timestamp, so that no add_sample with now at or after the last sample
\* timestamp takes a negative persistence difference.
C39_StartsNotAfterLastSample ==
    unit = "temp" =>
        /\ \A start \in StatusStarts(agg.status) :
                start <= agg.last_short_sample_ts
        /\ \A temps \in StepSamples, now \in TempCallTimes(agg.last_short_sample_ts) :
                now >= agg.last_short_sample_ts =>
                    ~add_sample_underflows(agg, temps, now)

\* C40 as claimed: once the current long record has integrated an interval
\* that ended in a present vaccine reading, its tvc_min and its tvc_max are
\* each a vaccine value that was in effect during the record: the value
\* stored when the record began or a reading received since; also after
\* finalize_long_record followed by samples without a vaccine reading.
C40_MinMaxAreValuesInEffect ==
    (unit = "temp" /\ hist.record_integrated) =>
        /\ agg.long_record.tvc_min \in hist.record_values
        /\ agg.long_record.tvc_max \in hist.record_values

============================================================================
